---- MODULE Spec2Model ----
(***************************************************************************)
(* hub-user-service: the authentication and token subsystem.               *)
(*                                                                         *)
(* Strings are sequences of one-character strings.  A bcrypt hash string   *)
(* is the sequence <<"$2a$10$", salt>> \o p : the header and the salt are  *)
(* one symbol each and the digest is stood for by the characters of the    *)
(* hashed password p (bcrypt is deterministic in salt and password, and    *)
(* injective up to collisions).  Time is in seconds.                       *)
(***************************************************************************)
EXTENDS Integers, Sequences, FiniteSets, TLC

VARIABLES
    now,        \* the wall clock, time.Now(), in seconds
    ticks,      \* how often the clock has been advanced
    ent,        \* a User entity held in memory, changed through its methods
    lastOp,     \* history: the entity method called last
    streak,     \* history: RecordFailedLogin calls since creation, the last
                \* RecordSuccessfulLogin or the last Unlock
    store,      \* the users table: user id -> row
    res,        \* the outcome of the last use-case call (Authenticate, RegisterUser)
    lockedAt,   \* history: per user id, when its row last went from unlocked to locked
    svc,        \* the token services' configuration (signing secrets, lifetime)
    tok,        \* the token string last issued or forged
    tokInfo,    \* history: who made tok, for whom and when
    vres,       \* the outcome of the last ValidateToken call
    procs,      \* the calls in flight: per goroutine, where it stands and its locals
    hist        \* history of the concurrent calls (what each specification counts)

vars == <<now, ticks, ent, lastOp, streak, store, res, lockedAt,
          svc, tok, tokInfo, vres, procs, hist>>

userVars  == <<ent, lastOp, streak>>
concVars  == <<procs, hist>>
authVars  == <<store, res, lockedAt, concVars>>
tokenVars == <<svc, tok, tokInfo, vres>>

----------------------------------------------------------------------------
(* Bounds of the model *)

MaxTicks == 2       \* clock advances per behaviour
MaxAttempts == 6    \* cap on FailedLoginAttempts, in the guards of the failing calls

----------------------------------------------------------------------------
(* Characters and strings *)

UpperSeq == <<"A","B","C","D","E","F","G","H","I","J","K","L","M",
              "N","O","P","Q","R","S","T","U","V","W","X","Y","Z">>
LowerSeq == <<"a","b","c","d","e","f","g","h","i","j","k","l","m",
              "n","o","p","q","r","s","t","u","v","w","x","y","z">>
UpperChars == {UpperSeq[i] : i \in 1..Len(UpperSeq)}
LowerChars == {LowerSeq[i] : i \in 1..Len(LowerSeq)}
DigitChars == {"0","1","2","3","4","5","6","7","8","9"}
SpecialChars == {"!","@","#","$","%","^","&","*","(",")","_","+","-","=","[","]",
                 "{","}",";","'",":","\"","\\","|",",",".","<",">","/","?","~","backtick"}   \* "backtick" stands for the grave accent

BcryptHeader == "$2a$10$"
Salts == {"salt1", "salt2"}

\* len(s) in bytes: a bcrypt hash string is 60 bytes long
IsBcryptString(s) == Len(s) >= 2 /\ s[1] = BcryptHeader /\ s[2] \in Salts
ByteLen(s) == IF IsBcryptString(s) THEN 60 ELSE Len(s)

\* the characters of s; those of a bcrypt hash string are the header's and the
\* letters and digits of its 53 base-64 characters
Range(s) ==
    IF IsBcryptString(s)
    THEN {"$"} \cup UpperChars \cup LowerChars \cup DigitChars
    ELSE {s[i] : i \in 1..Len(s)}

ToLowerChar(c) ==
    IF c \in UpperChars
    THEN LowerSeq[CHOOSE i \in 1..Len(UpperSeq) : UpperSeq[i] = c]
    ELSE c
ToLower(s) == [i \in 1..Len(s) |-> ToLowerChar(s[i])]

RECURSIVE TrimLeft(_)
TrimLeft(s) == IF s # <<>> /\ Head(s) = " " THEN TrimLeft(Tail(s)) ELSE s
RECURSIVE TrimRight(_)
TrimRight(s) ==
    IF s # <<>> /\ s[Len(s)] = " " THEN TrimRight(SubSeq(s, 1, Len(s) - 1)) ELSE s
TrimSpace(s) == TrimRight(TrimLeft(s))

----------------------------------------------------------------------------
(* Email value object *)

AtPositions(s) == {i \in 1..Len(s) : s[i] = "@"}
LocalChars == UpperChars \cup LowerChars \cup DigitChars \cup {".", "_", "%", "+", "-"}
DomainChars == UpperChars \cup LowerChars \cup DigitChars \cup {".", "-"}

\* ^[a-zA-Z0-9._%+\-]+@[a-zA-Z0-9.\-]+\.[a-zA-Z]{2,}$
emailRegex(s) ==
    \E a \in 1..Len(s) : \E d \in 1..Len(s) :
        /\ s[a] = "@" /\ s[d] = "." /\ a > 1 /\ d > a + 1 /\ Len(s) - d >= 2
        /\ \A i \in 1..(a - 1) : s[i] \in LocalChars
        /\ \A i \in (a + 1)..(d - 1) : s[i] \in DomainChars
        /\ \A i \in (d + 1)..Len(s) : s[i] \in UpperChars \cup LowerChars

\* the error message, "" for nil
validateEmail(raw) ==
    IF raw = <<>> THEN "email cannot be empty"
    ELSE LET email == TrimSpace(raw)
             at == AtPositions(email)
             a == CHOOSE i \in at : TRUE
             localPart == SubSeq(email, 1, a - 1)
             domainPart == SubSeq(email, a + 1, Len(email))
         IN  IF email = <<>> THEN "email cannot be empty"
             ELSE IF Len(email) > 254
                  THEN "email address is too long (maximum 254 characters)"
             ELSE IF Cardinality(at) # 1 THEN "email must contain exactly one @ symbol"
             ELSE IF Len(localPart) < 1 \/ Len(localPart) > 64
                  THEN "email local part must be between 1 and 64 characters"
             ELSE IF Len(domainPart) < 1 \/ Len(domainPart) > 253
                  THEN "email domain part must be between 1 and 253 characters"
             ELSE IF ~emailRegex(email) THEN "invalid email format"
             ELSE IF \E i \in 1..(Len(email) - 1) : email[i] = "." /\ email[i + 1] = "."
                  THEN "email cannot contain consecutive dots"
             ELSE IF localPart[1] = "." \/ localPart[Len(localPart)] = "."
                  THEN "email local part cannot start or end with a dot"
             ELSE ""

\* NewEmail: [err, value]
NewEmail(raw) ==
    LET err == validateEmail(raw)
    IN  IF err # "" THEN [err |-> err, value |-> <<>>]
        ELSE [err |-> "", value |-> ToLower(TrimSpace(raw))]

NewEmailFromRepository(email) == email

----------------------------------------------------------------------------
(* Password value object *)

\* the error message, "" for nil
validatePassword(password) ==
    IF password = <<>> THEN "password cannot be empty"
    ELSE IF ByteLen(password) < 8 THEN "password must be at least 8 characters long"
    ELSE IF ByteLen(password) > 72
         THEN "password is too long (maximum 72 characters for bcrypt)"
    ELSE IF Range(password) \cap UpperChars = {}
         THEN "password must contain at least one uppercase letter"
    ELSE IF Range(password) \cap LowerChars = {}
         THEN "password must contain at least one lowercase letter"
    ELSE IF Range(password) \cap DigitChars = {}
         THEN "password must contain at least one digit"
    ELSE IF Range(password) \cap SpecialChars = {}
         THEN "password must contain at least one special character"
    ELSE ""

\* NewPassword: [err, value]
NewPassword(password) ==
    LET err == validatePassword(password)
    IN  IF err # "" THEN [err |-> err, value |-> <<>>]
        ELSE [err |-> "", value |-> password]

NewHashedPassword(hashedPassword) == hashedPassword

\* bcrypt.GenerateFromPassword with the salt it drew
BcryptGenerate(password, salt) == <<BcryptHeader, salt>> \o password

\* bcrypt.CompareHashAndPassword(hashedPassword, password) = nil: hashedPassword parses
\* as a bcrypt hash and hashing password under its salt gives the same string
BcryptMatches(hashedPassword, password) ==
    /\ IsBcryptString(hashedPassword)
    /\ BcryptGenerate(password, hashedPassword[2]) = hashedPassword

\* Password.Hash of the Password holding value
PasswordHash(value, salt) == BcryptGenerate(value, salt)

\* Password.CompareWithHash(hashedPassword) of the Password holding value
CompareWithHash(value, hashedPassword) == BcryptMatches(hashedPassword, value)

----------------------------------------------------------------------------
(* User entity *)

NoTime == -1                \* a nil *time.Time
MaxFailedAttempts == 5      \* failed attempts at which the account is locked
LockDuration == 30 * 60     \* 30 * time.Minute

NilUser == [nil |-> TRUE]

\* NewUser: [err, user]; id is the uuid drawn, t is time.Now()
NewUser(email, password, firstName, lastName, id, t) ==
    LET emailVO == NewEmail(email)
        passwordVO == NewPassword(password)
    IN  IF emailVO.err # "" THEN [err |-> emailVO.err, user |-> NilUser]
        ELSE IF passwordVO.err # "" THEN [err |-> passwordVO.err, user |-> NilUser]
        ELSE [err |-> "",
              user |-> [ID |-> id,
                        Email |-> emailVO.value,
                        Password |-> passwordVO.value,
                        FirstName |-> firstName,
                        LastName |-> lastName,
                        IsActive |-> TRUE,
                        EmailVerified |-> FALSE,
                        CreatedAt |-> t,
                        UpdatedAt |-> t,
                        LastLoginAt |-> NoTime,
                        FailedLoginAttempts |-> 0,
                        LockedUntil |-> NoTime]]

NewUserFromRepository(id, email, hashedPassword, firstName, lastName, isActive, emailVerified, createdAt, updatedAt, lastLoginAt, lockedUntil, failedAttempts) ==
    [ID |-> id,
     Email |-> NewEmailFromRepository(email),
     Password |-> NewHashedPassword(hashedPassword),
     FirstName |-> firstName,
     LastName |-> lastName,
     IsActive |-> isActive,
     EmailVerified |-> emailVerified,
     CreatedAt |-> createdAt,
     UpdatedAt |-> updatedAt,
     LastLoginAt |-> lastLoginAt,
     LockedUntil |-> lockedUntil,
     FailedLoginAttempts |-> failedAttempts]

GetEmailString(u) == u.Email

\* the verified flag is cleared before the new email is validated
ChangeEmail_ClearsFlagFirst(u, newEmail, t) ==
    LET emailVO == NewEmail(newEmail)
        cleared == [u EXCEPT !.EmailVerified = FALSE]
    IN  IF emailVO.err # "" THEN [err |-> emailVO.err, user |-> cleared]
        ELSE [err |-> "",
              user |-> [cleared EXCEPT !.Email = emailVO.value, !.UpdatedAt = t]]

\* ChangeEmail: [err, user]
ChangeEmail(u, newEmail, t) ==
    LET emailVO == NewEmail(newEmail)
    IN  IF emailVO.err # "" THEN [err |-> emailVO.err, user |-> u]
        ELSE [err |-> "",
              user |-> [u EXCEPT !.Email = emailVO.value,
                                 !.EmailVerified = FALSE,
                                 !.UpdatedAt = t]]

\* ChangePassword: [err, user]
ChangePassword(u, newPassword, t) ==
    LET passwordVO == NewPassword(newPassword)
    IN  IF passwordVO.err # "" THEN [err |-> passwordVO.err, user |-> u]
        ELSE [err |-> "",
              user |-> [u EXCEPT !.Password = passwordVO.value, !.UpdatedAt = t]]

VerifyPasswordString(u, plainPassword) == CompareWithHash(u.Password, plainPassword)

\* a slip: the counter is reset and the lock is left in place
RecordSuccessfulLogin_KeepsLock(u, t) ==
    [u EXCEPT !.LastLoginAt = t, !.FailedLoginAttempts = 0, !.UpdatedAt = t]

RecordSuccessfulLogin(u, t) ==
    [u EXCEPT !.LastLoginAt = t,
              !.FailedLoginAttempts = 0,
              !.LockedUntil = NoTime,
              !.UpdatedAt = t]

\* a slip: the account locks one failure late
RecordFailedLogin_LocksLate(u, t) ==
    LET n == u.FailedLoginAttempts + 1
    IN  [u EXCEPT !.FailedLoginAttempts = n,
                  !.UpdatedAt = t,
                  !.LockedUntil = IF n > MaxFailedAttempts THEN t + LockDuration ELSE @]

RecordFailedLogin(u, t) ==
    LET n == u.FailedLoginAttempts + 1
    IN  [u EXCEPT !.FailedLoginAttempts = n,
                  !.UpdatedAt = t,
                  !.LockedUntil = IF n >= MaxFailedAttempts THEN t + LockDuration ELSE @]

IsLocked(u, t) == IF u.LockedUntil = NoTime THEN FALSE ELSE t < u.LockedUntil

\* a slip: the counter is taken down by one instead of being reset
Unlock_Decrements(u, t) ==
    [u EXCEPT !.LockedUntil = NoTime, !.FailedLoginAttempts = @ - 1, !.UpdatedAt = t]

Unlock(u, t) ==
    [u EXCEPT !.LockedUntil = NoTime, !.FailedLoginAttempts = 0, !.UpdatedAt = t]

Activate(u, t) == [u EXCEPT !.IsActive = TRUE, !.UpdatedAt = t]

Deactivate(u, t) == [u EXCEPT !.IsActive = FALSE, !.UpdatedAt = t]

VerifyEmail(u, t) == [u EXCEPT !.EmailVerified = TRUE, !.UpdatedAt = t]

\* a slip: the lock is looked at before the active flag
CanLogin_LockedFirst(u, t) ==
    IF IsLocked(u, t)
    THEN "account is temporarily locked due to failed login attempts"
    ELSE IF ~u.IsActive THEN "account is inactive"
    ELSE ""

\* the error message, "" for nil
CanLogin(u, t) ==
    IF ~u.IsActive THEN "account is inactive"
    ELSE IF IsLocked(u, t)
         THEN "account is temporarily locked due to failed login attempts"
    ELSE ""

\* HashPassword with the salt bcrypt drew (the Password is never nil here)
HashPassword(u, salt) == [u EXCEPT !.Password = NewHashedPassword(PasswordHash(@, salt))]

----------------------------------------------------------------------------
(* JSON Web Tokens (github.com/golang-jwt/jwt v3) *)

\* A string handed around as a token: the characters before a compact JWT and the
\* JWT itself.  A JWT is its header's alg, its JSON payload (claim name -> value,
\* present claims only) and its signature: what was signed and under which key.
NoJwt == [absent |-> TRUE]
TokenString(pre, jwt) == [pre |-> pre, jwt |-> jwt]
EmptyString == TokenString(<<>>, NoJwt)

Put(m, k, v) == [x \in (DOMAIN m) \cup {k} |-> IF x = k THEN v ELSE m[x]]
EmptyPayload == [x \in {} |-> 0]

\* token.SignedString(key) of jwt.NewWithClaims(jwt.SigningMethodHS256, payload)
SignedStringHS256(payload, key) ==
    TokenString(<<>>, [alg |-> "HS256",
                       payload |-> payload,
                       sig |-> [alg |-> "HS256", payload |-> payload, key |-> key]])

\* json.Marshal of a TokenClaims: the struct's field names, the embedded
\* StandardClaims under their tags, each omitted when empty
MarshalTokenClaims(c) ==
    LET m0 == [x \in {"UserID", "Email"} |-> IF x = "UserID" THEN c.UserID ELSE c.Email]
        m1 == IF c.ExpiresAt # 0 THEN Put(m0, "exp", c.ExpiresAt) ELSE m0
        m2 == IF c.IssuedAt # 0 THEN Put(m1, "iat", c.IssuedAt) ELSE m1
    IN  IF c.Issuer # "" THEN Put(m2, "iss", c.Issuer) ELSE m2

----------------------------------------------------------------------------
(* domain/service TokenService *)

Issuer == "hub-user-service"

NewTokenService(secretKey, tokenExpiration) ==
    [secretKey |-> secretKey, tokenExpiration |-> tokenExpiration]

\* the email is not looked at before signing
CreateToken_NoEmailCheck(s, userID, email, t) ==
    IF userID = "" THEN [err |-> "userID cannot be empty", token |-> EmptyString, signed |-> 0]
    ELSE LET claims == [UserID |-> userID,
                        Email |-> email,
                        ExpiresAt |-> t + s.tokenExpiration,
                        IssuedAt |-> t,
                        Issuer |-> Issuer]
         IN  [err |-> "",
              token |-> SignedStringHS256(MarshalTokenClaims(claims), s.secretKey),
              signed |-> 1]

\* signed: how often SignedString was called
CreateToken(s, userID, email, t) ==
    IF userID = "" THEN [err |-> "userID cannot be empty", token |-> EmptyString, signed |-> 0]
    ELSE IF email = <<>>
    THEN [err |-> "email cannot be empty", token |-> EmptyString, signed |-> 0]
    ELSE LET claims == [UserID |-> userID,
                        Email |-> email,
                        ExpiresAt |-> t + s.tokenExpiration,
                        IssuedAt |-> t,
                        Issuer |-> Issuer]
         IN  [err |-> "",
              token |-> SignedStringHS256(MarshalTokenClaims(claims), s.secretKey),
              signed |-> 1]

----------------------------------------------------------------------------
(* github.com/golang-jwt/jwt v3.2.2 as the token services call it.  A token  *)
(* string is [pre, jwt]: the characters in front of the compact JWT and the *)
(* JWT itself; a JWT is its header's alg, its payload (claim name -> value) *)
(* and its signature, which records what was signed and under which key.    *)

BearerPrefix == <<"B", "e", "a", "r", "e", "r", " ">>
PrefixLen == Len(BearerPrefix)

\* what is left of a compact JWT cut inside its header segment
GarbledJwt == [garbled |-> TRUE]

\* the length of a compact JWT: header, payload and HS256 signature segments
\* and the two dots; what matters is that it is longer than the prefix
JwtLen == 36 + 1 + 3 + 1 + 43

StringLen(s) == Len(s.pre) + (IF s.jwt = NoJwt THEN 0 ELSE JwtLen)

\* s[n:], for n <= len(s)
SliceFrom(s, n) ==
    IF n <= Len(s.pre) THEN TokenString(SubSeq(s.pre, n + 1, Len(s.pre)), s.jwt)
    ELSE TokenString(<<>>, GarbledJwt)

\* s[:len(p)] == p, for len(s) >= len(p)
HasPrefix(s, p) == Len(s.pre) >= Len(p) /\ SubSeq(s.pre, 1, Len(p)) = p

WithBearer(s) == TokenString(BearerPrefix \o s.pre, s.jwt)

HMACAlgs == {"HS256", "HS384", "HS512"}
SigningMethods == HMACAlgs \cup {"RS256", "ES256", "PS256", "none"}

\* an unsecured JWT: alg none and an empty signature segment
UnsignedString(payload) ==
    TokenString(<<>>, [alg |-> "none", payload |-> payload, sig |-> [alg |-> "none"]])

\* a token whose header names RS256, signed with an RSA private key
RSASignedString(payload) ==
    TokenString(<<>>, [alg |-> "RS256", payload |-> payload,
                       sig |-> [alg |-> "RS256", payload |-> payload, key |-> "rsa-private-key"]])

\* token.Method.Verify(signingString, signature, key) with a []byte key: the
\* HMAC methods recompute the signature; none wants its own key type and the
\* asymmetric methods a public key, so a []byte key fails them
Verify(jwt, key) ==
    /\ jwt.alg \in HMACAlgs
    /\ jwt.sig = [alg |-> jwt.alg, payload |-> jwt.payload, key |-> key]

\* a numeric claim; the Go zero value when the claim is absent
NumericClaim(m, k) == IF k \in DOMAIN m THEN m[k] ELSE 0

verifyExp(exp, t, required) == IF exp = 0 THEN ~required ELSE t <= exp
verifyIat(iat, t, required) == IF iat = 0 THEN ~required ELSE t >= iat
verifyNbf(nbf, t, required) == IF nbf = 0 THEN ~required ELSE t >= nbf

\* StandardClaims.Valid / MapClaims.Valid: no claim is required
ClaimsValid(exp, iat, nbf, t) ==
    IF ~verifyExp(exp, t, FALSE) THEN "token is expired"
    ELSE IF ~verifyIat(iat, t, FALSE) THEN "Token used before issued"
    ELSE IF ~verifyNbf(nbf, t, FALSE) THEN "token is not valid yet"
    ELSE ""

\* json.Unmarshal of a payload into a TokenClaims: a key matches a field by
\* its name or tag, case-insensitively; a field without a key keeps its zero value
UnmarshalTokenClaims(m) ==
    [UserID    |-> IF "UserID" \in DOMAIN m THEN m["UserID"]
                   ELSE IF "userId" \in DOMAIN m THEN m["userId"] ELSE "",
     Email     |-> IF "Email" \in DOMAIN m THEN m["Email"] ELSE <<>>,
     ExpiresAt |-> NumericClaim(m, "exp"),
     IssuedAt  |-> NumericClaim(m, "iat"),
     Issuer    |-> IF "iss" \in DOMAIN m THEN m["iss"] ELSE ""]

NilClaims == [nil |-> TRUE]
\* keyTo: the signing method whose Verify was handed the key function's key ("": none)
NoToken == [err |-> "", Valid |-> FALSE, Claims |-> NilClaims, keyTo |-> ""]

\* Parser.ParseWithClaims(tokenString, claims, keyFunc) at time t.  typed: the
\* claims are decoded into a TokenClaims (else into MapClaims); keyFunc is
\* [hmacOnly, key]: whether it refuses a non-HMAC method, and the key it returns
ParseWithClaims(p, tokenString, typed, keyFunc, t) ==
    IF tokenString.pre # <<>> \/ tokenString.jwt = NoJwt \/ tokenString.jwt = GarbledJwt
    THEN [NoToken EXCEPT !.err = "token is malformed"]
    ELSE LET j == tokenString.jwt
             claims == IF typed THEN UnmarshalTokenClaims(j.payload) ELSE j.payload
             claimsErr ==
                 IF p.SkipClaimsValidation THEN ""
                 ELSE IF typed THEN ClaimsValid(claims.ExpiresAt, claims.IssuedAt, 0, t)
                 ELSE ClaimsValid(NumericClaim(claims, "exp"), NumericClaim(claims, "iat"),
                                  NumericClaim(claims, "nbf"), t)
             sigErr == IF Verify(j, keyFunc.key) THEN "" ELSE "signature is invalid"
             err == IF sigErr # "" THEN sigErr ELSE claimsErr
         IN  IF j.alg \notin SigningMethods
             THEN [NoToken EXCEPT !.err = "signing method (alg) is unavailable."]
             ELSE IF keyFunc.hmacOnly /\ j.alg \notin HMACAlgs
             THEN [NoToken EXCEPT !.err = "unexpected signing method"]
             ELSE [err |-> err, Valid |-> (err = ""), Claims |-> claims, keyTo |-> j.alg]

\* new(Parser)
DefaultParser == [SkipClaimsValidation |-> FALSE]

----------------------------------------------------------------------------
(* domain/service TokenService.ValidateToken: [err, claims, panic] *)

Rejected(err) == [err |-> err, claims |-> NilClaims, panic |-> FALSE, keyTo |-> ""]
Accepted(claims) == [err |-> "", claims |-> claims, panic |-> FALSE, keyTo |-> ""]

\* history: the outcome together with the use the parse made of the key
KeyUse(token, out) == [out EXCEPT !.keyTo = token.keyTo]

\* the prefix cut off whatever the string starts with
ValidateToken_AlwaysStrips(s, tokenString, t) ==
    IF tokenString = EmptyString THEN Rejected("token string cannot be empty")
    ELSE LET raw == IF StringLen(tokenString) > PrefixLen
                    THEN SliceFrom(tokenString, PrefixLen) ELSE tokenString
             token == ParseWithClaims(DefaultParser, raw, TRUE,
                                      [hmacOnly |-> TRUE, key |-> s.secretKey], t)
         IN  KeyUse(token, IF token.err # "" THEN Rejected("failed to parse token")
                           ELSE IF ~token.Valid THEN Rejected("invalid token")
                           ELSE Accepted(token.Claims))

\* the signature verified under whatever key the token was signed with
ValidateToken_TrustsTokenKey(s, tokenString, t) ==
    IF tokenString = EmptyString THEN Rejected("token string cannot be empty")
    ELSE LET raw == IF StringLen(tokenString) > PrefixLen /\ HasPrefix(tokenString, BearerPrefix)
                    THEN SliceFrom(tokenString, PrefixLen) ELSE tokenString
             key == IF raw.jwt = NoJwt \/ raw.jwt = GarbledJwt THEN s.secretKey
                    ELSE IF "key" \in DOMAIN raw.jwt.sig THEN raw.jwt.sig.key
                    ELSE s.secretKey
             token == ParseWithClaims(DefaultParser, raw, TRUE,
                                      [hmacOnly |-> TRUE, key |-> key], t)
         IN  KeyUse(token, IF token.err # "" THEN Rejected("failed to parse token")
                           ELSE IF ~token.Valid THEN Rejected("invalid token")
                           ELSE Accepted(token.Claims))

ValidateToken(s, tokenString, t) ==
    IF tokenString = EmptyString THEN Rejected("token string cannot be empty")
    ELSE LET raw == IF StringLen(tokenString) > PrefixLen /\ HasPrefix(tokenString, BearerPrefix)
                    THEN SliceFrom(tokenString, PrefixLen) ELSE tokenString
             token == ParseWithClaims(DefaultParser, raw, TRUE,
                                      [hmacOnly |-> TRUE, key |-> s.secretKey], t)
         IN  KeyUse(token, IF token.err # "" THEN Rejected("failed to parse token")
                           ELSE IF ~token.Valid THEN Rejected("invalid token")
                           ELSE Accepted(token.Claims))

----------------------------------------------------------------------------
(* auth/token TokenService, configured by config.Get() *)

Config(jwtSecret) == [JWTSecret |-> jwtSecret]

\* CreateAndSignToken: [err, token]
CreateAndSignToken(cfg, userName, userId, t) ==
    LET claims == Put(Put(Put(EmptyPayload, "username", userName), "userId", userId),
                      "exp", t + 10 * 60)
    IN  [err |-> "", token |-> SignedStringHS256(claims, cfg.JWTSecret)]

\* parseToken: the parsed token and the error, or a panic when the slice
\* expression is out of range
parseToken(cfg, token, t) ==
    IF StringLen(token) < PrefixLen
    THEN [NoToken EXCEPT !.err = "slice bounds out of range"] @@ [panic |-> TRUE]
    ELSE ParseWithClaims(DefaultParser, SliceFrom(token, PrefixLen), FALSE,
                         [hmacOnly |-> FALSE, key |-> cfg.JWTSecret], t)
         @@ [panic |-> FALSE]

validateToken(token) ==
    IF ~token.Valid THEN Rejected("invalid token") ELSE Accepted(token.Claims)

\* ValidateToken of the auth/token service
AuthTokenValidateToken(cfg, tokenString, t) ==
    LET token == parseToken(cfg, tokenString, t)
    IN  KeyUse(token, IF token.panic THEN [Rejected(token.err) EXCEPT !.panic = TRUE]
                      ELSE IF token.err # "" THEN Rejected(token.err)
                      ELSE validateToken(token))

----------------------------------------------------------------------------
(* persistence.UserRepository over the users table (store: id -> row) *)

RowsByEmail(st, email) == {id \in DOMAIN st : st[id].Email = email}

dtoToModel(dto) ==
    NewUserFromRepository(dto.ID, dto.Email, dto.Password, dto.FirstName, dto.LastName,
                          dto.IsActive, dto.EmailVerified, dto.CreatedAt, dto.UpdatedAt,
                          dto.LastLoginAt, dto.LockedUntil, dto.FailedLoginAttempts)

\* Create: [err, store].  The INSERT leaves last_login_at and locked_until NULL; it
\* fails on a database fault and on the primary key and UNIQUE(email) constraints.
RepoCreate(st, user, fault) ==
    IF fault \/ user.ID \in DOMAIN st \/ RowsByEmail(st, GetEmailString(user)) # {}
    THEN [err |-> "failed to create user", store |-> st]
    ELSE [err |-> "",
          store |-> [id \in (DOMAIN st) \cup {user.ID} |->
                        IF id = user.ID
                        THEN [user EXCEPT !.LastLoginAt = NoTime, !.LockedUntil = NoTime]
                        ELSE st[id]]]

\* FindByEmail: [err, user].  mode "sql" is the repository of this service, "fault"
\* a failing query, "nil" an IUserRepository that answers (nil, nil) for no row.
RepoFindByEmail(st, email, mode) ==
    IF email = <<>> THEN [err |-> "email cannot be empty", user |-> NilUser]
    ELSE IF mode = "fault" THEN [err |-> "failed to find user", user |-> NilUser]
    ELSE IF RowsByEmail(st, email) = {}
         THEN [err |-> IF mode = "nil" THEN "" ELSE "user not found", user |-> NilUser]
    ELSE [err |-> "", user |-> dtoToModel(st[CHOOSE id \in RowsByEmail(st, email) : TRUE])]

\* FindByID: [err, user]
RepoFindByID(st, id) ==
    IF id = "" THEN [err |-> "user ID cannot be empty", user |-> NilUser]
    ELSE IF id \notin DOMAIN st THEN [err |-> "user not found", user |-> NilUser]
    ELSE [err |-> "", user |-> dtoToModel(st[id])]

\* Update: [err, store].  The UPDATE writes every column but id and created_at; the
\* table's trigger sets updated_at to the time of the update.
RepoUpdate(st, user, t, fault) ==
    IF fault THEN [err |-> "failed to update user", store |-> st]
    ELSE IF user.ID \notin DOMAIN st THEN [err |-> "user not found", store |-> st]
    ELSE IF RowsByEmail(st, GetEmailString(user)) \ {user.ID} # {}
         THEN [err |-> "failed to update user", store |-> st]
    ELSE [err |-> "",
          store |-> [st EXCEPT ![user.ID] =
                        [user EXCEPT !.CreatedAt = st[user.ID].CreatedAt,
                                     !.UpdatedAt = t]]]

\* ExistsByEmail: [err, exists]
RepoExistsByEmail(st, email, fault) ==
    IF email = <<>> THEN [err |-> "email cannot be empty", exists |-> FALSE]
    ELSE IF fault THEN [err |-> "failed to check if user exists", exists |-> FALSE]
    ELSE [err |-> "", exists |-> RowsByEmail(st, email) # {}]

----------------------------------------------------------------------------
(* domain/service AuthService *)

ErrInvalidCredentials == "invalid credentials"

\* what Authenticate returns (user, token, err), the table it leaves, and the history
\* of the call: the user it loaded, whether it compared the password, the user it
\* handed to Update and Update's answer, and how often it called the token service
AuthOut(err, user, token, st, loaded, compared, written, updateErr, tokenCalls) ==
    [err |-> err, user |-> user, token |-> token, store |-> st, loaded |-> loaded,
     compared |-> compared, written |-> written, updateErr |-> updateErr,
     tokenCalls |-> tokenCalls]

\* a slip: the failed login's write error is returned instead of the login error
AuthRecordFailure_SurfacesUpdateError(st, t, user, err, compared, updateFault) ==
    LET failed == RecordFailedLogin(user, t)
        upd == RepoUpdate(st, failed, t, updateFault)
    IN  AuthOut(IF upd.err # "" THEN "failed to update user login information" ELSE err,
                NilUser, EmptyString, upd.store, user, compared, failed, upd.err, 0)

\* a slip: the failing exits write the bookkeeping of a successful login
AuthRecordFailure_RecordsSuccess(st, t, user, err, compared, updateFault) ==
    LET ok == RecordSuccessfulLogin(user, t)
        upd == RepoUpdate(st, ok, t, updateFault)
    IN  AuthOut(err, NilUser, EmptyString, upd.store, user, compared, ok, upd.err, 0)

\* the two failing exits after the lookup: user.RecordFailedLogin(), the Update whose
\* error is dropped, and the return of err
AuthRecordFailure(st, t, user, err, compared, updateFault) ==
    LET failed == RecordFailedLogin(user, t)
        upd == RepoUpdate(st, failed, t, updateFault)
    IN  AuthOut(err, NilUser, EmptyString, upd.store, user, compared, failed, upd.err, 0)

\* a slip: the successful login's write error is dropped like the failed login's
AuthRecordSuccess_SwallowsUpdateError(ts, st, t, user, updateFault) ==
    LET ok == RecordSuccessfulLogin(user, t)
        upd == RepoUpdate(st, ok, t, updateFault)
        created == CreateToken(ts, ok.ID, GetEmailString(ok), t)
    IN  IF created.err # ""
        THEN AuthOut("failed to create authentication token", NilUser, EmptyString,
                     upd.store, user, TRUE, ok, upd.err, 1)
        ELSE AuthOut("", ok, created.token, upd.store, user, TRUE, ok, upd.err, 1)

\* the exit after a matching password: user.RecordSuccessfulLogin(), the Update whose
\* error is returned, the token
AuthRecordSuccess(ts, st, t, user, updateFault) ==
    LET ok == RecordSuccessfulLogin(user, t)
        upd == RepoUpdate(st, ok, t, updateFault)
        created == CreateToken(ts, ok.ID, GetEmailString(ok), t)
    IN  IF upd.err # ""
        THEN AuthOut("failed to update user login information", NilUser, EmptyString,
                     upd.store, user, TRUE, ok, upd.err, 0)
        ELSE IF created.err # ""
        THEN AuthOut("failed to create authentication token", NilUser, EmptyString,
                     upd.store, user, TRUE, ok, upd.err, 1)
        ELSE AuthOut("", ok, created.token, upd.store, user, TRUE, ok, upd.err, 1)

\* Authenticate from the return of FindByEmail on: st is the table as it is when
\* Update runs
AuthenticateFound(ts, st, t, found, password, updateFault) ==
    LET user == found.user
    IN  IF found.err # ""
        THEN AuthOut(ErrInvalidCredentials, NilUser, EmptyString, st,
                     NilUser, FALSE, NilUser, "", 0)
        ELSE IF user = NilUser
        THEN AuthOut(ErrInvalidCredentials, NilUser, EmptyString, st,
                     NilUser, FALSE, NilUser, "", 0)
        ELSE IF CanLogin(user, t) # ""
        THEN AuthRecordFailure(st, t, user, CanLogin(user, t), FALSE, updateFault)
        ELSE IF ~VerifyPasswordString(user, password)
        THEN AuthRecordFailure(st, t, user, ErrInvalidCredentials, TRUE, updateFault)
        ELSE AuthRecordSuccess(ts, st, t, user, updateFault)

Authenticate(ts, st, t, email, password, findMode, updateFault) ==
    IF email = <<>>
    THEN AuthOut("email cannot be empty", NilUser, EmptyString, st,
                 NilUser, FALSE, NilUser, "", 0)
    ELSE IF password = <<>>
    THEN AuthOut("password cannot be empty", NilUser, EmptyString, st,
                 NilUser, FALSE, NilUser, "", 0)
    ELSE
    LET found == RepoFindByEmail(st, email, findMode)
    IN  AuthenticateFound(ts, st, t, found, password, updateFault)

----------------------------------------------------------------------------
(* application/usecase RegisterUserUseCase *)

\* the answer of Execute and the history of the call: handed is the user
\* given to Create, NilUser when Create was not called
Registered(err, st, created, handed) ==
    [err |-> err, store |-> st, created |-> created, handed |-> handed]

\* a slip: the user is persisted before its password is hashed
RegisterUser_StoresPlaintext(st, t, cmd, id, salt, existsFault, createFault) ==
    IF cmd.Email = <<>> THEN Registered("email is required", st, NilUser, NilUser)
    ELSE IF cmd.Password = <<>> THEN Registered("password is required", st, NilUser, NilUser)
    ELSE IF cmd.FirstName = <<>> THEN Registered("first name is required", st, NilUser, NilUser)
    ELSE IF cmd.LastName = <<>> THEN Registered("last name is required", st, NilUser, NilUser)
    ELSE
    LET ex == RepoExistsByEmail(st, cmd.Email, existsFault)
        made == NewUser(cmd.Email, cmd.Password, cmd.FirstName, cmd.LastName, id, t)
        ins == RepoCreate(st, made.user, createFault)
    IN  IF ex.err # "" THEN Registered("failed to check if user exists", st, NilUser, NilUser)
        ELSE IF ex.exists
        THEN Registered("user with this email already exists", st, NilUser, NilUser)
        ELSE IF made.err # "" THEN Registered(made.err, st, NilUser, NilUser)
        ELSE IF ins.err # "" THEN Registered("failed to create user", st, NilUser, made.user)
        ELSE Registered("", ins.store, HashPassword(made.user, salt), made.user)

\* Execute: [err, store, created, handed]; id and salt are the uuid and the bcrypt
\* salt drawn
RegisterUser(st, t, cmd, id, salt, existsFault, createFault) ==
    IF cmd.Email = <<>> THEN Registered("email is required", st, NilUser, NilUser)
    ELSE IF cmd.Password = <<>> THEN Registered("password is required", st, NilUser, NilUser)
    ELSE IF cmd.FirstName = <<>> THEN Registered("first name is required", st, NilUser, NilUser)
    ELSE IF cmd.LastName = <<>> THEN Registered("last name is required", st, NilUser, NilUser)
    ELSE
    LET ex == RepoExistsByEmail(st, cmd.Email, existsFault)
        made == NewUser(cmd.Email, cmd.Password, cmd.FirstName, cmd.LastName, id, t)
        hashed == HashPassword(made.user, salt)
        ins == RepoCreate(st, hashed, createFault)
    IN  IF ex.err # "" THEN Registered("failed to check if user exists", st, NilUser, NilUser)
        ELSE IF ex.exists
        THEN Registered("user with this email already exists", st, NilUser, NilUser)
        ELSE IF made.err # "" THEN Registered(made.err, st, NilUser, NilUser)
        ELSE IF ins.err # "" THEN Registered("failed to create user", st, NilUser, hashed)
        ELSE Registered("", ins.store, hashed, hashed)

----------------------------------------------------------------------------
(* Inputs *)

EmailA      == <<"a","@","x",".","i","o">>
EmailAUpper == <<" ","A","@","x",".","i","o">>
EmailB      == <<"b","@","x",".","i","o">>
EmailNoAt   == <<"a","x",".","i","o">>

PwGood  == <<"A","b","c","d","e","f","1","!">>
PwOther == <<"Z","y","x","w","v","u","9","?">>
PwWeak  == <<"p","a","s","s","w","o","r","d">>

IDs == {"u1", "u2"}

\* what the clock may advance by: a second, or to one second before a lockout's end
LockSteps == {1, LockDuration - 1}

----------------------------------------------------------------------------
(* Initial values of the parts a specification leaves alone *)

NoRes == [op |-> "none"]

InitClock == now = 0 /\ ticks = 0
InitUserVars == ent = NilUser /\ lastOp = [name |-> "none"] /\ streak = 0
InitAuthVars ==
    /\ store = [id \in {} |-> NilUser]
    /\ res = NoRes
    /\ lockedAt = [id \in IDs |-> NoTime]
    /\ procs = NoRes
    /\ hist = NoRes
InitTokenVars == svc = NoRes /\ tok = NoRes /\ tokInfo = NoRes /\ vres = NoRes

----------------------------------------------------------------------------
(* The User entity on its own: a user made by NewUser, changed through its methods *)

\* the history of a method call: its name, when it ran, whether the user was locked before
Called(name) == [name |-> name, at |-> now, lockedBefore |-> IsLocked(ent, now)]

InitUser ==
    /\ InitClock /\ InitAuthVars /\ InitTokenVars
    /\ ent = NewUser(EmailAUpper, PwGood, <<"J">>, <<"D">>, "u1", 0).user
    /\ lastOp = [name |-> "NewUser", at |-> 0, lockedBefore |-> FALSE]
    /\ streak = 0

UserTick ==
    /\ ticks < MaxTicks
    /\ \E d \in LockSteps : now' = now + d
    /\ ticks' = ticks + 1
    /\ UNCHANGED <<userVars, authVars, tokenVars>>

UserRecordFailedLogin ==
    /\ ent.FailedLoginAttempts < MaxAttempts
    /\ ent' = RecordFailedLogin(ent, now)
    /\ lastOp' = Called("RecordFailedLogin")
    /\ streak' = streak + 1
    /\ UNCHANGED <<now, ticks, authVars, tokenVars>>

UserRecordSuccessfulLogin ==
    /\ ent' = RecordSuccessfulLogin(ent, now)
    /\ lastOp' = Called("RecordSuccessfulLogin")
    /\ streak' = 0
    /\ UNCHANGED <<now, ticks, authVars, tokenVars>>

UserUnlock ==
    /\ ent' = Unlock(ent, now)
    /\ lastOp' = Called("Unlock")
    /\ streak' = 0
    /\ UNCHANGED <<now, ticks, authVars, tokenVars>>

UserActivate ==
    /\ ent' = Activate(ent, now)
    /\ lastOp' = Called("Activate")
    /\ UNCHANGED <<now, ticks, streak, authVars, tokenVars>>

UserDeactivate ==
    /\ ent' = Deactivate(ent, now)
    /\ lastOp' = Called("Deactivate")
    /\ UNCHANGED <<now, ticks, streak, authVars, tokenVars>>

UserVerifyEmail ==
    /\ ent' = VerifyEmail(ent, now)
    /\ lastOp' = Called("VerifyEmail")
    /\ UNCHANGED <<now, ticks, streak, authVars, tokenVars>>

UserChangeEmail ==
    /\ \E newEmail \in {EmailB, EmailNoAt} :
          LET out == ChangeEmail(ent, newEmail, now)
          IN  /\ ent' = out.user
              /\ lastOp' = Called("ChangeEmail") @@ [input |-> newEmail, err |-> out.err]
    /\ UNCHANGED <<now, ticks, streak, authVars, tokenVars>>

UserChangePassword ==
    /\ \E newPassword \in {PwOther, PwWeak} :
          LET out == ChangePassword(ent, newPassword, now)
          IN  /\ ent' = out.user
              /\ lastOp' = Called("ChangePassword") @@ [input |-> newPassword, err |-> out.err]
    /\ UNCHANGED <<now, ticks, streak, authVars, tokenVars>>

UserHashPassword ==
    /\ ~IsBcryptString(ent.Password)
    /\ \E salt \in Salts : ent' = HashPassword(ent, salt)
    /\ lastOp' = Called("HashPassword")
    /\ UNCHANGED <<now, ticks, streak, authVars, tokenVars>>

NextUser ==
    \/ UserTick
    \/ UserRecordFailedLogin
    \/ UserRecordSuccessfulLogin
    \/ UserUnlock
    \/ UserActivate
    \/ UserDeactivate
    \/ UserVerifyEmail
    \/ UserChangeEmail
    \/ UserChangePassword
    \/ UserHashPassword

SpecUser == InitUser /\ [][NextUser]_vars

----------------------------------------------------------------------------
(* The service: registration, login and the operator's account changes on one table *)

TokenExpiration == 10 * 60      \* TOKEN_EXPIRATION, "10m" by default
AuthTokenService == NewTokenService("secret1", TokenExpiration)

RegisterSalt == "salt1"         \* the salt bcrypt draws at registration

RegisterCommand(email, password) ==
    [Email |-> email, Password |-> password, FirstName |-> <<"J">>, LastName |-> <<"D">>]
RegisterCommands ==
    {RegisterCommand(EmailA, PwGood), RegisterCommand(EmailAUpper, PwGood),
     RegisterCommand(EmailNoAt, PwGood), RegisterCommand(EmailA, PwWeak)}

\* the passwords a caller sends: the right one, a wrong one, none, and the bcrypt
\* hash of a stored password column
LoginPasswords(st) ==
    {PwGood, PwOther, <<>>} \cup {BcryptGenerate(st[id].Password, "salt1") : id \in DOMAIN st}

\* the calls of Authenticate: every combination of an email, a password, a behaviour
\* of the lookup and of the update, less those that differ only in a part the call
\* never reaches
LoginCalls(st) ==
    {c \in [email : {EmailA, <<>>}, password : LoginPasswords(st),
            findMode : {"sql", "fault", "nil"}, updateFault : BOOLEAN] :
        /\ c.email = <<>> => c.password = PwGood
        /\ (c.email = <<>> \/ c.password = <<>>) => c.findMode = "sql"
        /\ (c.email = <<>> \/ c.password = <<>> \/ c.findMode = "fault"
              \/ RowsByEmail(st, c.email) = {}) => ~c.updateFault
        /\ c.findMode = "nil" => RowsByEmail(st, c.email) = {}}

\* when each row last went from unlocked to locked; cleared by a write that unlocks it
LockedAtAfter(st, st2, t) ==
    [id \in IDs |->
        IF id \notin DOMAIN st2 THEN NoTime
        ELSE IF IsLocked(st2[id], t)
             THEN (IF id \in DOMAIN st /\ (IsLocked(st[id], t) \/ st2[id] = st[id])
                   THEN lockedAt[id] ELSE t)
        ELSE IF st2[id].LockedUntil = NoTime THEN NoTime
        ELSE lockedAt[id]]

InitAuth ==
    /\ InitClock /\ InitUserVars /\ InitTokenVars /\ InitAuthVars

AuthTick ==
    /\ ticks < MaxTicks
    /\ \E d \in LockSteps : now' = now + d
    /\ ticks' = ticks + 1
    /\ UNCHANGED <<userVars, authVars, tokenVars>>

DoRegisterUser ==
    /\ IDs \ DOMAIN store # {}
    /\ \E cmd \in RegisterCommands : \E fault \in {"none", "exists", "create"} :
        /\ fault # "none" => cmd = RegisterCommand(EmailAUpper, PwGood)
        /\ LET id == CHOOSE x \in IDs \ DOMAIN store : TRUE   \* uuid.New(): an unused id
               out == RegisterUser(store, now, cmd, id, RegisterSalt,
                                   fault = "exists", fault = "create")
           IN  /\ store' = out.store
               /\ res' = [op |-> "RegisterUser", cmd |-> cmd, err |-> out.err,
                          created |-> out.created, handed |-> out.handed]
               /\ lockedAt' = LockedAtAfter(store, out.store, now)
               /\ UNCHANGED <<now, ticks, userVars, tokenVars, concVars>>

DoAuthenticate ==
    \E call \in LoginCalls(store) :
        LET email == call.email
            password == call.password
            findMode == call.findMode
            out == Authenticate(AuthTokenService, store, now, email, password,
                                findMode, call.updateFault)
        IN  /\ \A id \in DOMAIN out.store :
                    out.store[id].FailedLoginAttempts <= MaxAttempts
            /\ store' = out.store
            /\ res' = [op |-> "Authenticate", at |-> now, email |-> email,
                       password |-> password, findMode |-> findMode,
                       err |-> out.err, user |-> out.user, token |-> out.token,
                       loaded |-> out.loaded, compared |-> out.compared,
                       written |-> out.written, updateErr |-> out.updateErr,
                       tokenCalls |-> out.tokenCalls]
            /\ lockedAt' = LockedAtAfter(store, out.store, now)
            /\ UNCHANGED <<now, ticks, userVars, tokenVars, concVars>>

\* the operator loads a user by id, calls one of Deactivate, Activate and Unlock and
\* saves it
AdminChange(id, name, changed) ==
    LET upd == RepoUpdate(store, changed, now, FALSE)
    IN  /\ store' = upd.store
        /\ res' = [op |-> name, id |-> id]
        /\ lockedAt' = IF name = "Unlock" THEN [lockedAt EXCEPT ![id] = NoTime]
                       ELSE lockedAt
        /\ UNCHANGED <<now, ticks, userVars, tokenVars, concVars>>

AdminDeactivate ==
    \E id \in DOMAIN store :
        AdminChange(id, "Deactivate", Deactivate(RepoFindByID(store, id).user, now))

AdminActivate ==
    \E id \in DOMAIN store :
        /\ ~store[id].IsActive
        /\ AdminChange(id, "Activate", Activate(RepoFindByID(store, id).user, now))

AdminUnlock ==
    \E id \in DOMAIN store :
        AdminChange(id, "Unlock", Unlock(RepoFindByID(store, id).user, now))

NextAuth ==
    \/ AuthTick
    \/ DoRegisterUser
    \/ DoAuthenticate
    \/ AdminDeactivate
    \/ AdminActivate
    \/ AdminUnlock

SpecAuth == InitAuth /\ [][NextAuth]_vars

----------------------------------------------------------------------------
(* The token services: two domain Token Services A and B, constructed      *)
(* independently, and the auth/token service, which reads the process       *)
(* configuration.  Tokens are issued by the services or made by a party     *)
(* holding some key (as the tests make expired tokens), and presented raw   *)
(* or behind "Bearer ".                                                     *)

Secrets == {"secret1", "secret2"}
Instances == {"A", "B"}
TokenSteps == {1, TokenExpiration}

\* the exp a hand-made token carries: the Unix epoch, a second ago, now
ForgedExps(t) == {0, t - 1, t}

Issued(by, op, userID, email, err) ==
    [by |-> by, op |-> op, userID |-> userID, email |-> email, at |-> now, err |-> err]

Validated(by, out) ==
    [op |-> "ValidateToken", by |-> by, at |-> now, input |-> tok,
     err |-> out.err, claims |-> out.claims, panic |-> out.panic, keyTo |-> out.keyTo]

\* the clock starts one token lifetime after the Unix epoch
InitToken ==
    /\ now = TokenExpiration /\ ticks = 0
    /\ InitUserVars /\ InitAuthVars
    /\ \E k \in Secrets :
          svc = [A |-> NewTokenService("secret1", TokenExpiration),
                 B |-> NewTokenService(k, TokenExpiration),
                 cfg |-> Config("secret1")]
    /\ tok = EmptyString /\ tokInfo = NoRes /\ vres = NoRes

TokenTick ==
    /\ ticks < MaxTicks
    /\ \E d \in TokenSteps : now' = now + d
    /\ ticks' = ticks + 1
    /\ UNCHANGED <<userVars, authVars, tokenVars>>

DoCreateToken ==
    /\ \E inst \in Instances, userID \in {"u1", ""}, email \in {EmailA, <<>>} :
          LET r == CreateToken(svc[inst], userID, email, now)
          IN  /\ tok' = r.token
              /\ tokInfo' = Issued(inst, "CreateToken", userID, email, r.err)
                             @@ [returned |-> r.token, signed |-> r.signed]
    /\ vres' = NoRes
    /\ UNCHANGED <<now, ticks, userVars, authVars, svc>>

DoCreateAndSignToken ==
    /\ LET r == CreateAndSignToken(svc.cfg, EmailA, "u1", now)
       IN  /\ tok' = r.token
           /\ tokInfo' = Issued("auth", "CreateAndSignToken", "u1", EmailA, r.err)
    /\ vres' = NoRes
    /\ UNCHANGED <<now, ticks, userVars, authVars, svc>>

\* jwt.NewWithClaims(jwt.SigningMethodHS256, jwt.MapClaims{...}).SignedString(key)
SignOwnToken ==
    /\ \E key \in Secrets, exp \in ForgedExps(now) :
          tok' = SignedStringHS256(
                    Put(Put(Put(EmptyPayload, "username", EmailA), "userId", "u1"), "exp", exp),
                    key)
    /\ tokInfo' = Issued("test", "SignedString", "u1", EmailA, "")
    /\ vres' = NoRes
    /\ UNCHANGED <<now, ticks, userVars, authVars, svc>>

\* a token whose header names a method outside the HMAC family
MakeUnsignedToken ==
    /\ \E alg \in {"none", "RS256"} :
          LET payload == Put(Put(Put(EmptyPayload, "username", EmailA), "userId", "u1"),
                             "exp", now + TokenExpiration)
          IN  /\ tok' = IF alg = "none" THEN UnsignedString(payload) ELSE RSASignedString(payload)
              /\ tokInfo' = Issued("test", alg, "u1", EmailA, "")
    /\ vres' = NoRes
    /\ UNCHANGED <<now, ticks, userVars, authVars, svc>>

\* "Bearer " + tokenString
PresentWithBearer ==
    /\ tok.jwt # NoJwt /\ tok.pre = <<>>
    /\ tok' = WithBearer(tok)
    /\ vres' = NoRes
    /\ UNCHANGED <<now, ticks, userVars, authVars, svc, tokInfo>>

\* a 7-character prefix that is not "Bearer "
OtherPrefix == <<"b", "e", "a", "r", "e", "r", " ">>

\* "bearer " + tokenString
PresentWithOtherPrefix ==
    /\ tok.jwt # NoJwt /\ tok.pre = <<>>
    /\ tok' = TokenString(OtherPrefix \o tok.pre, tok.jwt)
    /\ vres' = NoRes
    /\ UNCHANGED <<now, ticks, userVars, authVars, svc, tokInfo>>

\* a string that holds no token: empty, or shorter than the prefix
PresentString ==
    /\ \E s \in {EmptyString, TokenString(<<"x">>, NoJwt)} : tok' = s
    /\ tokInfo' = Issued("test", "string", "", <<>>, "")
    /\ vres' = NoRes
    /\ UNCHANGED <<now, ticks, userVars, authVars, svc>>

DoValidateToken ==
    /\ \E inst \in Instances :
          vres' = Validated(inst, ValidateToken(svc[inst], tok, now))
    /\ UNCHANGED <<now, ticks, userVars, authVars, svc, tok, tokInfo>>

DoAuthTokenValidateToken ==
    /\ vres' = Validated("auth", AuthTokenValidateToken(svc.cfg, tok, now))
    /\ UNCHANGED <<now, ticks, userVars, authVars, svc, tok, tokInfo>>

NextToken ==
    \/ TokenTick
    \/ DoCreateToken
    \/ DoCreateAndSignToken
    \/ SignOwnToken
    \/ MakeUnsignedToken
    \/ PresentWithBearer
    \/ PresentWithOtherPrefix
    \/ PresentString
    \/ DoValidateToken
    \/ DoAuthTokenValidateToken

SpecToken == InitToken /\ [][NextToken]_vars

----------------------------------------------------------------------------
(* Claims about the User entity *)

\* C2: for a user with no failed attempts and no lock (as created, or after a
\* successful login or an unlock), after 4 RecordFailedLogin calls IsLocked() is
\* false; right after the 5th (and for the next 30 minutes) it is true; and a
\* RecordSuccessfulLogin leaves IsLocked() false and the counter at 0.
C2_LockoutInvariant ==
    /\ streak = 4 => ~IsLocked(ent, now)
    /\ (streak = 5 /\ lastOp.name = "RecordFailedLogin" /\ now < lastOp.at + LockDuration)
            => IsLocked(ent, now)
    /\ lastOp.name = "RecordSuccessfulLogin"
            => ~IsLocked(ent, now) /\ ent.FailedLoginAttempts = 0

\* a successful login has just lifted the lock the 5th failure imposed
C2_Witness ==
    /\ lastOp.name = "RecordSuccessfulLogin"
    /\ lastOp.lockedBefore
    /\ ~IsLocked(ent, now)
    /\ ent.FailedLoginAttempts = 0

\* C4 (as claimed): RecordFailedLogin adds one to the counter and sets lockedUntil to
\* now + 30 minutes only on the call that brings the counter to 5; every other call
\* leaves lockedUntil as it was, so an unlocked account becomes locked only there.
C4_LocksOnlyOnFifth ==
    [][UserRecordFailedLogin =>
        /\ ent'.FailedLoginAttempts = ent.FailedLoginAttempts + 1
        /\ IF ent'.FailedLoginAttempts = MaxFailedAttempts
           THEN ent'.LockedUntil = now + LockDuration
           ELSE ent'.LockedUntil = ent.LockedUntil
        /\ (~IsLocked(ent, now) /\ IsLocked(ent', now))
              => ent'.FailedLoginAttempts = MaxFailedAttempts]_vars

----------------------------------------------------------------------------
(* Claims about Authenticate *)

ErrInactive == "account is inactive"
ErrLocked == "account is temporarily locked due to failed login attempts"

IsAuth == res.op = "Authenticate"
\* the call found the account's row
Found == IsAuth /\ res.loaded # NilUser
\* the call handed Update a user on which it had recorded a failed login
RecordedFailure ==
    /\ Found /\ res.written # NilUser
    /\ res.written.FailedLoginAttempts = res.loaded.FailedLoginAttempts + 1
\* the call handed Update a user on which it had recorded a successful login
RecordedSuccess ==
    /\ Found /\ res.written # NilUser
    /\ res.written.FailedLoginAttempts = 0
    /\ res.written.LockedUntil = NoTime
    /\ res.written.LastLoginAt = res.at
NoUserNoToken == res.user = NilUser /\ res.token = EmptyString

\* C1 (as claimed): for a registered user whose row holds the bcrypt hash of P, active
\* and not locked, Authenticate(email, P) finds the password to match and, its update
\* accepted, returns the user and a token with no error.
C1_RegisteredPasswordAuthenticates ==
    (/\ Found
     /\ CanLogin(res.loaded, res.at) = ""
     /\ BcryptMatches(res.loaded.Password, res.password)
     /\ res.updateErr = "")
        => res.err = "" /\ res.user # NilUser /\ res.token # EmptyString

\* C3 (as claimed): an account locked at time T and not unlocked by hand is not locked
\* at any time later than T + 30 minutes and, when active, can log in, whatever
\* Authenticate calls were made for it during the lockout.
C3_LockLiftedAfterThirtyMinutes ==
    \A id \in DOMAIN store :
        (lockedAt[id] # NoTime /\ now > lockedAt[id] + LockDuration)
            => /\ ~IsLocked(store[id], now)
               /\ store[id].IsActive => CanLogin(store[id], now) = ""

\* C5: for a found user that is inactive or locked, Authenticate returns the
\* account-state error (inactive before locked), which is not "invalid credentials",
\* whatever the password, without comparing the password, with no user and no token,
\* after recording a failed login and handing the user to Update.
C5_AccountStateBeforePassword ==
    (Found /\ (~res.loaded.IsActive \/ IsLocked(res.loaded, res.at)))
        => /\ res.err = (IF ~res.loaded.IsActive THEN ErrInactive ELSE ErrLocked)
           /\ res.err # ErrInvalidCredentials
           /\ ~res.compared
           /\ NoUserNoToken
           /\ RecordedFailure

\* an account both inactive and locked was answered "inactive" although the password
\* sent was the registered one
C5_Witness ==
    /\ Found /\ ~res.loaded.IsActive /\ IsLocked(res.loaded, res.at)
    /\ res.password = PwGood
    /\ res.err = ErrInactive /\ RecordedFailure

\* C6 (as claimed): with a non-empty email and password Authenticate returns
\* "invalid credentials" and no user or token when the lookup reports an error, when
\* it returns no user, and when the user exists, active and unlocked, but the
\* password is not the one whose hash is stored.
C6_SameErrorInAllThreeCases ==
    (/\ IsAuth /\ res.email # <<>> /\ res.password # <<>>
     /\ \/ res.loaded = NilUser
        \/ /\ CanLogin(res.loaded, res.at) = ""
           /\ ~BcryptMatches(res.loaded.Password, res.password))
        => res.err = ErrInvalidCredentials /\ NoUserNoToken

\* C7: when Update fails while Authenticate is recording a failed login, Authenticate
\* still returns the login error (the CanLogin error or "invalid credentials"), not a
\* persistence error, and no user or token.
C7_FailedLoginWriteErrorSwallowed ==
    (RecordedFailure /\ res.updateErr # "")
        => /\ res.err = (IF ~res.loaded.IsActive THEN ErrInactive
                         ELSE IF IsLocked(res.loaded, res.at) THEN ErrLocked
                         ELSE ErrInvalidCredentials)
           /\ NoUserNoToken
           /\ res.tokenCalls = 0

\* the update failed under a wrong-password login, which was answered "invalid credentials"
C7_Witness ==
    /\ RecordedFailure /\ res.updateErr # "" /\ res.compared
    /\ res.err = ErrInvalidCredentials

\* C8: when the update of the successful-login bookkeeping fails, Authenticate returns
\* an error, no user and no token and does not call the token service; so a token is
\* returned only by a call whose update, resetting the counter and clearing the lock,
\* the table accepted.
C8_SuccessfulLoginWriteErrorSurfaced ==
    /\ (RecordedSuccess /\ res.updateErr # "")
            => res.err # "" /\ NoUserNoToken /\ res.tokenCalls = 0
    /\ (IsAuth /\ res.token # EmptyString)
            => /\ RecordedSuccess /\ res.updateErr = ""
               /\ res.user.ID \in DOMAIN store
               /\ store[res.user.ID].FailedLoginAttempts = 0
               /\ store[res.user.ID].LockedUntil = NoTime

\* the password comparison succeeded, the update failed, and the call ended in an error
C8_Witness ==
    /\ RecordedSuccess /\ res.updateErr # ""
    /\ res.err = "failed to update user login information"
    /\ NoUserNoToken

----------------------------------------------------------------------------
(* Claims about the token services (SpecToken) *)

IsValidation == vres.op = "ValidateToken"

\* the secret the validating service verifies signatures with
SecretOf(by) == IF by = "auth" THEN svc.cfg.JWTSecret ELSE svc[by].secretKey

HoldsJwt(s) == s.jwt # NoJwt /\ s.jwt # GarbledJwt

CorrectlySigned(s, key) == HoldsJwt(s) /\ Verify(s.jwt, key)

\* C9: token round trip.  A token that a Token Service made by CreateToken
\* for a non-empty user id and email, validated as it is by the same service
\* at a time not later than the exp it carries, is accepted, and the claims
\* returned hold that user id as UserID and that email as Email.
C9_TokenRoundTrip ==
    (/\ IsValidation
     /\ vres.by \in Instances
     /\ tokInfo.op = "CreateToken" /\ tokInfo.by = vres.by
     /\ tokInfo.userID # "" /\ tokInfo.email # <<>>
     /\ vres.input.pre = <<>>
     /\ vres.at <= vres.input.jwt.payload["exp"])
    => /\ vres.err = ""
       /\ vres.claims # NilClaims
       /\ vres.claims.UserID = tokInfo.userID
       /\ vres.claims.Email = tokInfo.email

\* C9 witness: a created token validated by its service exactly at its
\* expiry, after the clock moved, and returned with the id and email
C9_Witness ==
    /\ IsValidation
    /\ vres.by \in Instances
    /\ tokInfo.op = "CreateToken" /\ tokInfo.by = vres.by
    /\ tokInfo.userID = "u1" /\ tokInfo.email = EmailA
    /\ vres.input.pre = <<>>
    /\ vres.at = vres.input.jwt.payload["exp"]
    /\ vres.at > tokInfo.at
    /\ vres.err = ""
    /\ vres.claims.UserID = "u1" /\ vres.claims.Email = EmailA

\* C10: expiry.  A token correctly signed for the validating service whose
\* exp lies before the time of validation is rejected by either token
\* service with an error and nil claims; that is, no such token is accepted
\* once the current time has passed its exp.
C10_ExpiredTokenRejected ==
    (/\ IsValidation
     /\ HoldsJwt(vres.input)
     /\ CorrectlySigned(TokenString(<<>>, vres.input.jwt), SecretOf(vres.by))
     /\ "exp" \in DOMAIN vres.input.jwt.payload
     /\ vres.input.jwt.payload["exp"] < vres.at)
    => /\ vres.err # ""
       /\ vres.claims = NilClaims

\* a validation by one domain Token Service of an unexpired token that the
\* other one made by CreateToken for a non-empty user id and email, presented
\* as it was issued or behind "Bearer "
CrossInstance ==
    /\ IsValidation
    /\ vres.by \in Instances
    /\ vres.input.pre \in {<<>>, BearerPrefix}
    /\ tokInfo.op = "CreateToken" /\ tokInfo.by \in Instances \ {vres.by}
    /\ tokInfo.err = ""
    /\ vres.at <= vres.input.jwt.payload["exp"]

\* C11: cross-instance compatibility.  An unexpired token issued by one
\* Token Service is accepted by the other, independently constructed one,
\* with the user id and email it was issued for, exactly when the two are
\* configured with the same signing secret; under different secrets it is
\* rejected with an error and nil claims.
C11_CrossInstanceCompatibility ==
    CrossInstance =>
        IF svc.A.secretKey = svc.B.secretKey
        THEN /\ vres.err = ""
             /\ vres.claims = UnmarshalTokenClaims(vres.input.jwt.payload)
             /\ vres.claims.UserID = tokInfo.userID
             /\ vres.claims.Email = tokInfo.email
        ELSE /\ vres.err # ""
             /\ vres.claims = NilClaims

\* C11 witness: B, holding another secret than A, has rejected A's token
\* behind "Bearer " before its expiry
C11_Witness ==
    /\ CrossInstance
    /\ vres.by = "B" /\ svc.A.secretKey # svc.B.secretKey
    /\ vres.input.pre = BearerPrefix
    /\ vres.err # "" /\ vres.claims = NilClaims

\* the token in tok was issued by one of the service's token services
IssuedByService ==
    /\ tokInfo.op \in {"CreateToken", "CreateAndSignToken"}
    /\ tokInfo.err = ""
    /\ tok.jwt # NoJwt

\* C12: interoperable claim set.  Every token issued by CreateAndSignToken
\* of the auth/token service or by CreateToken of the domain Token Service
\* carries the claims username, userId and exp, holding the identity label,
\* the user id and the expiry (issue time plus ten minutes) given at issue.
C12_IssuedClaimSet ==
    IssuedByService =>
        LET payload == tok.jwt.payload
        IN  /\ {"username", "userId", "exp"} \subseteq DOMAIN payload
            /\ payload["username"] = tokInfo.email
            /\ payload["userId"] = tokInfo.userID
            /\ payload["exp"] = tokInfo.at + TokenExpiration

\* the claims a service returns for an accepted payload
ClaimsOf(by, payload) == IF by = "auth" THEN payload ELSE UnmarshalTokenClaims(payload)

\* a validation of a token that is valid for the validating service and
\* unexpired, behind whatever prefix it was presented with
ValidTokenPresented ==
    /\ IsValidation
    /\ HoldsJwt(vres.input)
    /\ CorrectlySigned(TokenString(<<>>, vres.input.jwt), SecretOf(vres.by))
    /\ vres.at <= vres.input.jwt.payload["exp"]

\* C13: Bearer-prefix tolerance.  A valid unexpired token is accepted by
\* ValidateToken both raw and behind "Bearer ", with the same claims (those
\* of its payload); behind any other 7-character prefix nothing is removed
\* and the string is rejected.
C13_BearerPrefixTolerance ==
    ValidTokenPresented =>
        IF vres.input.pre \in {<<>>, BearerPrefix}
        THEN /\ vres.err = ""
             /\ vres.claims = ClaimsOf(vres.by, vres.input.jwt.payload)
        ELSE /\ vres.err # ""
             /\ vres.claims = NilClaims

\* C14: algorithm restriction.  ValidateToken rejects, with an error and nil
\* claims, every token whose header names a signing method outside the HMAC
\* family, well formed and unexpired as it may be, and the signing secret is
\* handed to signature verification for HMAC-signed tokens only.
C14_OnlyHMACVerified ==
    /\ (/\ IsValidation
        /\ HoldsJwt(vres.input)
        /\ vres.input.jwt.alg \notin HMACAlgs)
       => /\ vres.err # ""
          /\ vres.claims = NilClaims
    /\ (IsValidation /\ vres.keyTo # "") => vres.keyTo \in HMACAlgs

\* C15: CreateToken's input checks.  Called with an empty user id or an
\* empty email, CreateToken returns an error and the empty token string and
\* signs nothing; it returns a non-empty token (with no error, signed once)
\* only when both are non-empty.
C15_CreateTokenRefusesEmpty ==
    tokInfo.op = "CreateToken" =>
        /\ (tokInfo.userID = "" \/ tokInfo.email = <<>>)
              => /\ tokInfo.err # ""
                 /\ tokInfo.returned = EmptyString
                 /\ tokInfo.signed = 0
        /\ tokInfo.returned # EmptyString
              => /\ tokInfo.userID # "" /\ tokInfo.email # <<>>
                 /\ tokInfo.err = ""
                 /\ tokInfo.signed = 1

\* C15 witness: CreateToken refused a call with a user id and an empty email
C15_Witness ==
    /\ tokInfo.op = "CreateToken"
    /\ tokInfo.userID = "u1" /\ tokInfo.email = <<>>
    /\ tokInfo.err = "email cannot be empty"
    /\ tokInfo.returned = EmptyString /\ tok = EmptyString

\* C16: the auth/token service's ValidateToken on bad input.  For every
\* input string that is not "Bearer " followed by a valid unexpired token
\* signed with the configured secret (strings without the prefix and strings
\* shorter than the prefix included), it returns an error and nil claims as
\* an ordinary return value, without panicking.
C16_AuthTokenRejectsByReturn ==
    (/\ IsValidation
     /\ vres.by = "auth"
     /\ ~(/\ vres.input.pre = BearerPrefix
          /\ HoldsJwt(vres.input)
          /\ CorrectlySigned(TokenString(<<>>, vres.input.jwt), SecretOf("auth"))
          /\ vres.at <= vres.input.jwt.payload["exp"]))
    => /\ ~vres.panic
       /\ vres.err # ""
       /\ vres.claims = NilClaims

----------------------------------------------------------------------------
(* Concurrent logins: goroutines of the server calling Authenticate for the *)
(* one registered account.  Between FindByEmail and Update a call holds its *)
(* own copy of the user; the store applies each call atomically.            *)

MaxCalls == 4       \* Authenticate calls started per behaviour

Procs == {"p1", "p2"}
Idle == [pc |-> "idle"]

\* the table after RegisterUser(a@x.io, Abcdef1!) at time 0
RegisteredStore ==
    RegisterUser([id \in {} |-> NilUser], 0, RegisterCommand(EmailA, PwGood),
                 "u1", RegisterSalt, FALSE, FALSE).store

\* a wrong password, and the one that VerifyPasswordString accepts
ConcurrentPasswords == {PwOther, BcryptGenerate(RegisteredStore["u1"].Password, RegisterSalt)}

InitLogin ==
    /\ InitClock /\ InitUserVars /\ InitTokenVars
    /\ store = RegisteredStore
    /\ res = NoRes
    /\ lockedAt = [id \in IDs |-> NoTime]
    /\ procs = [p \in Procs |-> Idle]
    /\ hist = [calls |-> 0, failed |-> 0]

LoginTick ==
    /\ ticks < MaxTicks
    /\ \E d \in LockSteps : now' = now + d
    /\ ticks' = ticks + 1
    /\ UNCHANGED <<userVars, authVars, tokenVars>>

\* Authenticate up to the return of FindByEmail
LoginFind(p) ==
    /\ procs[p].pc = "idle"
    /\ hist.calls < MaxCalls
    /\ \E password \in ConcurrentPasswords :
          procs' = [procs EXCEPT ![p] =
                       [pc |-> "found", password |-> password,
                        found |-> RepoFindByEmail(store, EmailA, "sql")]]
    /\ hist' = [hist EXCEPT !.calls = @ + 1]
    /\ UNCHANGED <<now, ticks, userVars, tokenVars, store, res, lockedAt>>

\* the rest of Authenticate: the checks on the copy, Update, the token
LoginFinish(p) ==
    /\ procs[p].pc = "found"
    /\ LET out == AuthenticateFound(AuthTokenService, store, now, procs[p].found,
                                    procs[p].password, FALSE)
       IN  /\ store' = out.store
           /\ res' = [op |-> "Authenticate", by |-> p, at |-> now,
                      password |-> procs[p].password,
                      err |-> out.err, user |-> out.user, token |-> out.token,
                      loaded |-> out.loaded, compared |-> out.compared,
                      written |-> out.written, updateErr |-> out.updateErr]
           /\ lockedAt' = LockedAtAfter(store, out.store, now)
           /\ hist' = [hist EXCEPT !.failed = IF out.err = "" THEN 0 ELSE @ + 1]
    /\ procs' = [procs EXCEPT ![p] = Idle]
    /\ UNCHANGED <<now, ticks, userVars, tokenVars>>

AllIdle == \A p \in Procs : procs[p].pc = "idle"

\* an operator unlocks the account while no login is in flight: FindByID,
\* Unlock, Update
LoginUnlock ==
    /\ AllIdle
    /\ store["u1"].FailedLoginAttempts > 0
    /\ store' = RepoUpdate(store, Unlock(RepoFindByID(store, "u1").user, now), now, FALSE).store
    /\ res' = [op |-> "Unlock", id |-> "u1"]
    /\ lockedAt' = [lockedAt EXCEPT !["u1"] = NoTime]
    /\ hist' = [hist EXCEPT !.failed = 0]
    /\ UNCHANGED <<now, ticks, userVars, tokenVars, procs>>

NextLogin ==
    \/ LoginTick
    \/ \E p \in Procs : LoginFind(p)
    \/ \E p \in Procs : LoginFinish(p)
    \/ LoginUnlock

SpecLogin == InitLogin /\ [][NextLogin]_vars

\* C17: the persisted counter is the number of consecutive failed logins.
\* After any interleaving of Authenticate calls for the account, FindByEmail
\* and Update each applied atomically and every Update succeeding, the
\* row's failed_login_attempts equals the number of failed attempts made
\* since the last successful login or unlock.
C17_CounterCountsFailures ==
    AllIdle => store["u1"].FailedLoginAttempts = hist.failed

----------------------------------------------------------------------------
(* package config: the variables instance and once, and goroutines calling  *)
(* Load() and Get().  svc holds the package's variables: instance, and      *)
(* once as its done flag and the holder of its mutex.  Get reads instance   *)
(* outside once; a read that no synchronisation orders after the write in   *)
(* Load is a data race, and may observe nil or the pointer written.         *)

ConfigProcs == {"p1", "p2"}
NilConfig == [nil |-> TRUE]

InitConfig ==
    /\ InitClock /\ InitUserVars
    /\ store = [id \in {} |-> NilUser] /\ res = NoRes
    /\ lockedAt = [id \in IDs |-> NoTime]
    /\ svc = [instance |-> NilConfig, done |-> FALSE, m |-> "free"]
    /\ tok = NoRes /\ tokInfo = NoRes /\ vres = NoRes
    /\ procs = [p \in ConfigProcs |-> [pc |-> "idle", call |-> "none", synced |-> FALSE]]
    /\ hist = [calls |-> 0, built |-> 0, returned |-> {}]

ConfigFrame == UNCHANGED <<now, ticks, userVars, store, res, lockedAt, tok, tokInfo, vres>>

At(p, pc) == procs[p].pc = pc
Goto(p, pc) == [procs EXCEPT ![p].pc = pc]

\* the values a read of instance by p may observe
ReadInstance(p) == IF procs[p].synced THEN {svc.instance} ELSE {NilConfig, svc.instance}

Return(p, v) ==
    /\ procs' = Goto(p, "idle")
    /\ hist' = [hist EXCEPT !.returned = @ \cup {v}]

\* a goroutine calls Load() or Get()
ConfigCall(p) ==
    /\ At(p, "idle")
    /\ hist.calls < MaxCalls
    /\ \E call \in {"Load", "Get"} :
          procs' = [procs EXCEPT ![p].pc = IF call = "Load" THEN "Do" ELSE "Check",
                                 ![p].call = call]
    /\ hist' = [hist EXCEPT !.calls = @ + 1]
    /\ UNCHANGED svc /\ ConfigFrame

\* Get: if instance == nil { return Load() }
GetCheck(p) ==
    /\ At(p, "Check")
    /\ \E v \in ReadInstance(p) :
          procs' = Goto(p, IF v = NilConfig THEN "Do" ELSE "GetReturn")
    /\ UNCHANGED <<svc, hist>> /\ ConfigFrame

\* Get: return instance
GetReturn(p) ==
    /\ At(p, "GetReturn")
    /\ \E v \in ReadInstance(p) : Return(p, v)
    /\ UNCHANGED svc /\ ConfigFrame

\* once.Do: the fast path when done is set, else on to the mutex
OnceDo(p) ==
    /\ At(p, "Do")
    /\ procs' = IF svc.done THEN [procs EXCEPT ![p].pc = "LoadReturn", ![p].synced = TRUE]
                ELSE Goto(p, "Lock")
    /\ UNCHANGED <<svc, hist>> /\ ConfigFrame

\* once.doSlow: take the mutex; if done was set meanwhile, release and leave
OnceLock(p) ==
    /\ At(p, "Lock")
    /\ svc.m = "free"
    /\ IF svc.done
       THEN /\ procs' = [procs EXCEPT ![p].pc = "LoadReturn", ![p].synced = TRUE]
            /\ UNCHANGED svc
       ELSE /\ procs' = Goto(p, "Build")
            /\ svc' = [svc EXCEPT !.m = p]
    /\ UNCHANGED hist /\ ConfigFrame

\* the function given to once.Do: instance = &Config{...}
BuildInstance(p) ==
    /\ At(p, "Build")
    /\ svc' = [svc EXCEPT !.instance = [nil |-> FALSE, id |-> hist.built + 1]]
    /\ hist' = [hist EXCEPT !.built = @ + 1]
    /\ procs' = Goto(p, "Built")
    /\ ConfigFrame

\* the function returns: done is set and the mutex released
OnceDone(p) ==
    /\ At(p, "Built")
    /\ svc' = [svc EXCEPT !.done = TRUE, !.m = "free"]
    /\ procs' = [procs EXCEPT ![p].pc = "LoadReturn", ![p].synced = TRUE]
    /\ UNCHANGED hist /\ ConfigFrame

\* Load: return instance
LoadReturn(p) ==
    /\ At(p, "LoadReturn")
    /\ \E v \in ReadInstance(p) : Return(p, v)
    /\ UNCHANGED svc /\ ConfigFrame

NextConfig ==
    \E p \in ConfigProcs :
        \/ ConfigCall(p)
        \/ GetCheck(p)
        \/ GetReturn(p)
        \/ OnceDo(p)
        \/ OnceLock(p)
        \/ BuildInstance(p)
        \/ OnceDone(p)
        \/ LoadReturn(p)

SpecConfig == InitConfig /\ [][NextConfig]_vars

\* C18: once-initialised singleton.  Under any interleaving of concurrent
\* Load() and Get() calls the configuration is built at most once and every
\* call returns the same instance, never nil.
C18_ConfigSingleton ==
    /\ hist.built <= 1
    /\ NilConfig \notin hist.returned
    /\ Cardinality(hist.returned) <= 1

----------------------------------------------------------------------------
(* Further claims about the User entity (SpecUser) *)

ChangeFailed ==
    /\ lastOp.name \in {"ChangeEmail", "ChangePassword"}
    /\ lastOp.err # ""

\* C19: a refused change changes nothing.  A ChangeEmail or ChangePassword
\* call whose input fails validation returns the validation error and
\* leaves the user as it was: email, password, emailVerified, updatedAt and
\* every other field.
C19_RefusedChangeLeavesUser ==
    [][ChangeFailed' =>
          /\ ent' = ent
          /\ lastOp'.err = (IF lastOp'.name = "ChangeEmail"
                            THEN NewEmail(lastOp'.input).err
                            ELSE NewPassword(lastOp'.input).err)]_vars

\* C19 witness: ChangeEmail has refused an invalid email on a user whose
\* email was verified earlier, and the user still has the verified flag and
\* the email it was created with
C19_Witness ==
    /\ ChangeFailed
    /\ lastOp.name = "ChangeEmail" /\ lastOp.input = EmailNoAt
    /\ ent.EmailVerified
    /\ ent.Email = NewEmail(EmailAUpper).value
    /\ lastOp.at > ent.UpdatedAt

----------------------------------------------------------------------------
(* The two password value objects: domain/model (NewPassword above) and     *)
(* login/domain/valueobject, whose NewPassword adds the weak-pattern and    *)
(* sequence rules and caps the length at 60.                                *)

DigitSeq == <<"0", "1", "2", "3", "4", "5", "6", "7", "8", "9">>

\* the printable ASCII characters in code order, from the space (32) to ~ (126)
Ascii ==
    <<" ", "!", "\"", "#", "$", "%", "&", "'", "(", ")", "*", "+", ",", "-", ".", "/">>
    \o DigitSeq \o <<":", ";", "<", "=", ">", "?", "@">> \o UpperSeq
    \o <<"[", "\\", "]", "^", "_", "backtick">> \o LowerSeq \o <<"{", "|", "}", "~">>

\* the byte of a character
Code(c) == 31 + (CHOOSE i \in 1..Len(Ascii) : Ascii[i] = c)

\* a string of n copies of c
Repeat(c, n) == [i \in 1..n |-> c]

weakPatterns ==
    {<<"p", "a", "s", "s", "w", "o", "r", "d">>, <<"1", "2", "3", "4", "5", "6">>,
     <<"q", "w", "e", "r", "t", "y">>, <<"a", "b", "c", "1", "2", "3">>,
     <<"a", "d", "m", "i", "n">>, <<"u", "s", "e", "r">>, <<"l", "o", "g", "i", "n">>,
     <<"w", "e", "l", "c", "o", "m", "e">>, <<"c", "h", "a", "n", "g", "e", "m", "e">>,
     <<"d", "e", "f", "a", "u", "l", "t">>, <<"g", "u", "e", "s", "t">>,
     <<"1", "2", "3", "4", "5", "6", "7", "8">>,
     <<"8", "7", "6", "5", "4", "3", "2", "1">>,
     <<"q", "w", "e", "r", "t", "y", "u", "i">>,
     <<"a", "s", "d", "f", "g", "h", "j", "k">>}

\* isSequential: every byte is its predecessor plus one, or every byte is its
\* predecessor minus one (byte arithmetic)
isSequential(password) ==
    IF Len(password) < 4 THEN FALSE
    ELSE \/ \A i \in 2..Len(password) :
                Code(password[i]) = (Code(password[i - 1]) + 1) % 256
         \/ \A i \in 2..Len(password) :
                Code(password[i]) = (Code(password[i - 1]) + 255) % 256

checkWeakPatterns(password) ==
    IF ToLower(password) \in weakPatterns THEN "password contains a common weak pattern"
    ELSE IF isSequential(password) THEN "password cannot be a simple sequence"
    ELSE ""

\* (the list of the message ends with the grave accent, written backtick here)
VoSpecialMessage ==
    "password must contain at least one special character (!@#$%^&*()_+-=[]{}:;\"'|,.<>?/~backtick)"

\* the weak patterns are looked for before the character classes
VoValidatePassword_WeakFirst(password) ==
    IF password = <<>> THEN "password cannot be empty"
    ELSE IF Len(password) < 8 THEN "password must be at least 8 characters long"
    ELSE IF Len(password) > 60 THEN "password is too long (maximum 60 characters)"
    ELSE IF checkWeakPatterns(password) # "" THEN checkWeakPatterns(password)
    ELSE IF Range(password) \cap UpperChars = {}
         THEN "password must contain at least one uppercase letter"
    ELSE IF Range(password) \cap LowerChars = {}
         THEN "password must contain at least one lowercase letter"
    ELSE IF Range(password) \cap DigitChars = {}
         THEN "password must contain at least one digit"
    ELSE IF Range(password) \cap SpecialChars = {} THEN VoSpecialMessage
    ELSE ""

\* validatePassword of login/domain/valueobject
VoValidatePassword(password) ==
    IF password = <<>> THEN "password cannot be empty"
    ELSE IF Len(password) < 8 THEN "password must be at least 8 characters long"
    ELSE IF Len(password) > 60 THEN "password is too long (maximum 60 characters)"
    ELSE IF Range(password) \cap UpperChars = {}
         THEN "password must contain at least one uppercase letter"
    ELSE IF Range(password) \cap LowerChars = {}
         THEN "password must contain at least one lowercase letter"
    ELSE IF Range(password) \cap DigitChars = {}
         THEN "password must contain at least one digit"
    ELSE IF Range(password) \cap SpecialChars = {} THEN VoSpecialMessage
    ELSE checkWeakPatterns(password)

\* NewPassword of login/domain/valueobject: [err, value]
VoNewPassword(password) ==
    LET err == VoValidatePassword(password)
    IN  IF err # "" THEN [err |-> err, value |-> <<>>]
        ELSE [err |-> "", value |-> password]

\* Candidate passwords: a head, a middle and a tail, and some chosen ones:
\* runs of consecutive characters and strings around the maximal lengths
Heads == {<<>>, <<"P", "a", "s", "s">>, <<"p", "a", "s", "s">>, <<"P", "A", "S", "S">>}
Middles == {<<>>, <<"w", "o", "r", "d">>, <<"1", "2", "3", "4">>, <<"W", "0", "r", "d">>}
Tails == {<<>>, <<"1">>, <<"!">>, <<"1", "!">>}

\* the 41 characters from 9 to a: a digit, special characters, the upper-case
\* letters and a lower-case letter, each the successor of the one before
AscendingRun == SubSeq(Ascii, Code("9") - 31, Code("a") - 31)
DescendingRun == [i \in 1..Len(AscendingRun) |-> AscendingRun[Len(AscendingRun) + 1 - i]]

PasswordInputs ==
    {h \o m \o t : h \in Heads, m \in Middles, t \in Tails}
    \cup {AscendingRun, DescendingRun,
          <<"1", "2", "3", "4", "5", "6", "7", "8">>, <<"8", "7", "6", "5", "4", "3", "2", "1">>, <<"a", "b", "c", "d", "e", "f", "g", "h">>,
          <<"A", "a", "1", "!">> \o Repeat("x", 56), <<"A", "a", "1", "!">> \o Repeat("x", 57),
          <<"A", "a", "1", "!">> \o Repeat("x", 68), <<"A", "a", "1", "!">> \o Repeat("x", 69)}

InitPassword ==
    /\ InitClock /\ InitUserVars /\ InitAuthVars /\ InitTokenVars

\* model.NewPassword(input)
CallNewPassword ==
    /\ \E input \in PasswordInputs :
          LET out == NewPassword(input)
          IN  res' = [op |-> "NewPassword", pkg |-> "model", input |-> input,
                      err |-> out.err, value |-> out.value]
    /\ UNCHANGED <<now, ticks, userVars, store, lockedAt, concVars, tokenVars>>

\* valueobject.NewPassword(input)
CallVoNewPassword ==
    /\ \E input \in PasswordInputs :
          LET out == VoNewPassword(input)
          IN  res' = [op |-> "NewPassword", pkg |-> "valueobject", input |-> input,
                      err |-> out.err, value |-> out.value]
    /\ UNCHANGED <<now, ticks, userVars, store, lockedAt, concVars, tokenVars>>

NextPassword == CallNewPassword \/ CallVoNewPassword

SpecPassword == InitPassword /\ [][NextPassword]_vars

----------------------------------------------------------------------------
(* C20: the order of the password rules *)

IsNewPassword == res # NoRes /\ res.op = "NewPassword"

\* does the named rule fail on p, under the policy of the package
RuleFails(pkg, rule, p) ==
    CASE rule = "empty" -> Len(p) = 0
      [] rule = "min" -> Len(p) < 8
      [] rule = "max" -> Len(p) > (IF pkg = "valueobject" THEN 60 ELSE 72)
      [] rule = "upper" -> \A i \in 1..Len(p) : p[i] \notin UpperChars
      [] rule = "lower" -> \A i \in 1..Len(p) : p[i] \notin LowerChars
      [] rule = "digit" -> \A i \in 1..Len(p) : p[i] \notin DigitChars
      [] rule = "special" -> \A i \in 1..Len(p) : p[i] \notin SpecialChars
      [] rule = "weak" -> ToLower(p) \in weakPatterns
      [] rule = "sequential" -> isSequential(p)

RuleMessage(pkg, rule) ==
    CASE rule = "empty" -> "password cannot be empty"
      [] rule = "min" -> "password must be at least 8 characters long"
      [] rule = "max" -> IF pkg = "valueobject"
                         THEN "password is too long (maximum 60 characters)"
                         ELSE "password is too long (maximum 72 characters for bcrypt)"
      [] rule = "upper" -> "password must contain at least one uppercase letter"
      [] rule = "lower" -> "password must contain at least one lowercase letter"
      [] rule = "digit" -> "password must contain at least one digit"
      [] rule = "special" -> IF pkg = "valueobject" THEN VoSpecialMessage
                             ELSE "password must contain at least one special character"
      [] rule = "weak" -> "password contains a common weak pattern"
      [] rule = "sequential" -> "password cannot be a simple sequence"

\* the message of the first rule of the order that fails on p, "" when none does
FirstFailing(order, pkg, p) ==
    LET failing == {i \in 1..Len(order) : RuleFails(pkg, order[i], p)}
    IN  IF failing = {} THEN ""
        ELSE RuleMessage(pkg, order[CHOOSE i \in failing : \A j \in failing : i <= j])

BasicOrder == <<"min", "max", "upper", "lower", "digit", "special">>

\* the order each package follows: both refuse the empty password first, and
\* only login/domain/valueobject goes on to the weak patterns and the sequences
RuleOrder(pkg) ==
    IF pkg = "valueobject" THEN <<"empty">> \o BasicOrder \o <<"weak", "sequential">>
    ELSE <<"empty">> \o BasicOrder

FollowsOrder(order) ==
    /\ res.err = FirstFailing(order, res.pkg, res.input)
    /\ res.value = (IF FirstFailing(order, res.pkg, res.input) = "" THEN res.input ELSE <<>>)

\* C20 (as stated): NewPassword evaluates minimum length, maximum length,
\* uppercase, lowercase, digit, special character, weak pattern and sequential
\* pattern in this order, returns the message of the first rule that fails and
\* accepts the password only when none fails.
C20_StatedRuleOrder ==
    IsNewPassword => FollowsOrder(BasicOrder \o <<"weak", "sequential">>)

\* C20 (amended): both NewPassword refuse the empty password first, with a
\* message of its own, then evaluate minimum length, maximum length (60 in
\* login/domain/valueobject, 72 in domain/model), uppercase, lowercase, digit
\* and special character in this order; login/domain/valueobject then evaluates
\* weak pattern and sequential pattern, domain/model has no further rule.  The
\* message of the first rule that fails is returned, and the password is
\* accepted only when none fails.
C20_FirstFailingRule ==
    IsNewPassword => FollowsOrder(RuleOrder(res.pkg))

\* "password" fails the uppercase, digit, special and weak-pattern rules and is
\* refused with the uppercase message
C20_Witness ==
    /\ IsNewPassword
    /\ res.pkg = "valueobject"
    /\ res.input = <<"p", "a", "s", "s", "w", "o", "r", "d">>
    /\ res.err = "password must contain at least one uppercase letter"

----------------------------------------------------------------------------
(* The presentation layers.  HTTP, over the domain Token Service: the       *)
(* container wires ValidateTokenUseCase -> AuthService.ValidateToken ->     *)
(* TokenService.  gRPC AuthServer, over auth.AuthService and auth/token.    *)

\* strings.TrimPrefix(s, p)
TrimPrefix(s, p) == IF HasPrefix(s, p) THEN SliceFrom(s, Len(p)) ELSE s

\* ValidateTokenUseCase.Execute: [err, result]; a token the service rejects
\* is answered with a result, Valid false, and no error
Execute(s, token, t) ==
    IF token = EmptyString THEN [err |-> "token is required", result |-> [nil |-> TRUE]]
    ELSE LET out == ValidateToken(s, token, t)
         IN  IF out.err # ""
             THEN [err |-> "", result |-> [Valid |-> FALSE, UserID |-> "", Email |-> <<>>]]
             ELSE [err |-> "",
                   result |-> [Valid |-> TRUE, UserID |-> out.claims.UserID,
                               Email |-> out.claims.Email]]

\* respondWithJSON / respondWithError / http.Error: the status and the payload
Respond(code, payload) == [status |-> code, body |-> payload, next |-> FALSE]

\* UserHandler.ValidateToken
UserHandlerValidateToken(s, method, header, t) ==
    IF method # "POST" THEN Respond(405, "Method not allowed")
    ELSE IF header = EmptyString THEN Respond(401, "Missing authorization header")
    ELSE LET r == Execute(s, header, t)
         IN  IF r.err # "" THEN Respond(401, r.err)
             ELSE Respond(200, r.result)

\* the result's Valid flag is not looked at
AuthMiddleware_IgnoresValid(s, header, t) ==
    IF header = EmptyString THEN Respond(401, "Missing authorization header")
    ELSE LET r == Execute(s, TrimPrefix(header, BearerPrefix), t)
         IN  IF r.err # "" THEN Respond(401, "Invalid or expired token")
             ELSE [status |-> 0, body |-> "", next |-> TRUE]

\* UserHandler.AuthMiddleware(next): the response it writes itself, or
\* next |-> TRUE when it hands the request to the protected handler
AuthMiddleware(s, header, t) ==
    IF header = EmptyString THEN Respond(401, "Missing authorization header")
    ELSE LET r == Execute(s, TrimPrefix(header, BearerPrefix), t)
         IN  IF r.err # "" \/ ~r.result.Valid THEN Respond(401, "Invalid or expired token")
             ELSE [status |-> 0, body |-> "", next |-> TRUE]

\* the request and the response of an HTTP call
Served(handler, method, out) ==
    [op |-> handler, method |-> method, at |-> now, input |-> tok,
     status |-> out.status, body |-> out.body, next |-> out.next]

\* Authorization: "Bearer " and nothing behind it
PresentBareBearer ==
    /\ tok' = TokenString(BearerPrefix, NoJwt)
    /\ tokInfo' = Issued("test", "string", "", <<>>, "")
    /\ vres' = NoRes
    /\ UNCHANGED <<now, ticks, userVars, authVars, svc>>

\* a request to /validate-token
HttpValidateToken ==
    /\ \E method \in {"POST", "GET"} :
          vres' = Served("HTTP ValidateToken", method,
                         UserHandlerValidateToken(svc.A, method, tok, now))
    /\ UNCHANGED <<now, ticks, userVars, authVars, svc, tok, tokInfo>>

\* a request to a route behind AuthMiddleware
HttpProtected ==
    /\ vres' = Served("HTTP AuthMiddleware", "GET", AuthMiddleware(svc.A, tok, now))
    /\ UNCHANGED <<now, ticks, userVars, authVars, svc, tok, tokInfo>>

\* auth.AuthService.VerifyToken(tokenString, w): [err, userId, wrote, panic].
\* wrote: the branch that answers on w was taken; with a nil w it panics
VerifyToken(cfg, tokenString, w, t) ==
    IF tokenString = EmptyString
    THEN [err |-> "missing authorization header", userId |-> "", wrote |-> TRUE,
          panic |-> (w = "nil")]
    ELSE LET out == AuthTokenValidateToken(cfg, tokenString, t)
         IN  IF out.err # "" \/ out.panic
             THEN [err |-> out.err, userId |-> "", wrote |-> FALSE, panic |-> out.panic]
             ELSE [err |-> "", wrote |-> FALSE, panic |-> FALSE,
                   userId |-> IF "userId" \in DOMAIN out.claims
                              THEN out.claims["userId"] ELSE ""]

\* the response of the gRPC ValidateToken and the history of the call: was
\* VerifyToken called, did it take the branch that writes, did the call panic
Answered(code, isValid, userId, called, v) ==
    [status |-> code, isValid |-> isValid, userId |-> userId, called |-> called,
     wrote |-> v.wrote, panic |-> v.panic]

\* the request token goes to VerifyToken unchecked
AuthServerValidateToken_NoEmptyCheck(cfg, token, t) ==
    LET v == VerifyToken(cfg, token, "nil", t)
    IN  IF v.panic THEN Answered(0, FALSE, "", TRUE, v)
        ELSE IF v.err # "" THEN Answered(401, FALSE, "", TRUE, v)
        ELSE Answered(200, TRUE, v.userId, TRUE, v)

\* AuthServer.ValidateToken (gRPC), which passes a nil writer to VerifyToken
AuthServerValidateToken(cfg, token, t) ==
    IF token = EmptyString
    THEN Answered(400, FALSE, "", FALSE, [wrote |-> FALSE, panic |-> FALSE])
    ELSE LET v == VerifyToken(cfg, token, "nil", t)
         IN  IF v.panic THEN Answered(0, FALSE, "", TRUE, v)
             ELSE IF v.err # "" THEN Answered(401, FALSE, "", TRUE, v)
             ELSE Answered(200, TRUE, v.userId, TRUE, v)

\* a ValidateTokenRequest to the gRPC server
GrpcValidateToken ==
    /\ vres' = [op |-> "gRPC ValidateToken", at |-> now, input |-> tok]
                @@ AuthServerValidateToken(svc.cfg, tok, now)
    /\ UNCHANGED <<now, ticks, userVars, authVars, svc, tok, tokInfo>>

NextEndpoints ==
    \/ TokenTick
    \/ DoCreateToken
    \/ DoCreateAndSignToken
    \/ SignOwnToken
    \/ MakeUnsignedToken
    \/ PresentWithBearer
    \/ PresentWithOtherPrefix
    \/ PresentString
    \/ PresentBareBearer
    \/ HttpValidateToken
    \/ HttpProtected
    \/ GrpcValidateToken

SpecEndpoints == InitToken /\ [][NextEndpoints]_vars

\* the verdict of the container's Token Service on the presented header
TokenServiceAccepts == ValidateToken(svc.A, vres.input, vres.at).err = ""

\* C21: token errors map to a 401-class response.  A POST to the HTTP
\* ValidateToken endpoint is answered with 401 when the Authorization header
\* is missing or the Token Service rejects the presented token, and with 200
\* only for a token the Token Service accepted.
C21_TokenErrorsAre401 ==
    (vres.op = "HTTP ValidateToken" /\ vres.method = "POST") =>
        IF vres.input # EmptyString /\ TokenServiceAccepts
        THEN vres.status = 200
        ELSE vres.status = 401

\* C25: AuthMiddleware hands the request to the protected handler only when
\* the Token Service validated the token of the Authorization header, raw or
\* behind "Bearer "; otherwise (missing header, rejected token) it answers
\* 401 itself and the protected handler is not invoked.
C25_MiddlewareGuardsHandler ==
    vres.op = "HTTP AuthMiddleware" =>
        IF vres.next
        THEN /\ vres.input # EmptyString
             /\ vres.input.pre \in {<<>>, BearerPrefix}
             /\ TokenServiceAccepts
        ELSE vres.status = 401

\* C25 witness: a token the Token Service accepts, behind "Bearer ", reached
\* the protected handler
C25_Witness ==
    /\ vres.op = "HTTP AuthMiddleware"
    /\ vres.input.pre = BearerPrefix /\ HoldsJwt(vres.input)
    /\ TokenServiceAccepts
    /\ vres.next

----------------------------------------------------------------------------
(* C22, C26: the failed-attempt counter and the lock *)

\* C22: FailedLoginAttempts is never negative, in every row of the store and
\* in the users that Authenticate loads, hands to Update and returns, after
\* any sequence of RegisterUser, Authenticate (failing and succeeding),
\* Unlock, Activate and Deactivate.
C22_CounterNeverNegative ==
    /\ \A id \in DOMAIN store : store[id].FailedLoginAttempts >= 0
    /\ res.op = "Authenticate" =>
          \A u \in {res.loaded, res.written, res.user} :
              u # NilUser => u.FailedLoginAttempts >= 0

\* C22 witness: a successful login after the lock ran out has written the
\* counter back from 5 or more to 0
C22_Witness ==
    /\ res.op = "Authenticate" /\ res.err = ""
    /\ res.loaded.FailedLoginAttempts >= MaxFailedAttempts
    /\ res.written.FailedLoginAttempts = 0
    /\ store[res.written.ID].FailedLoginAttempts = 0

\* the counter and the lock of a user agree
LockAgreesWithCounter(u) ==
    /\ u.LockedUntil # NoTime => u.FailedLoginAttempts >= MaxFailedAttempts
    /\ u.FailedLoginAttempts = 0 => u.LockedUntil = NoTime

\* C26: for a user created by NewUser and changed only through its methods,
\* whenever lockedUntil is set the failed-attempt counter is at least 5, and
\* whenever the counter is 0 lockedUntil is unset.
C26_LockImpliesFiveFailures == LockAgreesWithCounter(ent)

\* C26 witness: a lock that has run out is still set, the counter is 5 or more
C26_Witness ==
    /\ ent.LockedUntil # NoTime /\ ent.LockedUntil <= now
    /\ ent.FailedLoginAttempts >= MaxFailedAttempts

\* C30: the gRPC ValidateToken never takes the branch of VerifyToken that
\* writes to the (nil) response writer: VerifyToken is called only with a
\* non-empty token, and an empty token is answered with code 400 and
\* IsValid = false without a call of VerifyToken.
C30_NilWriterNeverWritten ==
    vres.op = "gRPC ValidateToken" =>
        /\ ~vres.wrote
        /\ vres.called => vres.input # EmptyString
        /\ vres.input = EmptyString =>
              vres.status = 400 /\ ~vres.isValid /\ ~vres.called

\* C30 witness: the empty token was answered with 400 and VerifyToken was
\* not called
C30_Witness ==
    /\ vres.op = "gRPC ValidateToken"
    /\ vres.input = EmptyString
    /\ vres.status = 400 /\ ~vres.isValid /\ ~vres.called /\ ~vres.wrote

----------------------------------------------------------------------------
(* C23, C24: registration *)

\* the form an email is stored in
Normalized(email) == ToLower(TrimSpace(email))

\* a RegisterUser call has just returned
RegisterStep == res'.op = "RegisterUser" /\ now' = now

\* C23: a RegisterUser for an email whose normalized form is already stored
\* fails with "user with this email already exists" (or, when the existence
\* query itself fails, with its error) and creates nothing; no two stored
\* users share an email.
C23_DuplicateEmailRefused ==
    [][/\ (RegisterStep /\ RowsByEmail(store, Normalized(res'.cmd.Email)) # {}) =>
             /\ res'.err \in {"user with this email already exists",
                              "failed to check if user exists"}
             /\ store' = store
       /\ \A a, b \in DOMAIN store' : store'[a].Email = store'[b].Email => a = b]_vars

\* C24: RegisterUser hashes before it persists.  The user handed to Create
\* carries the bcrypt hash of the command's password, never the plaintext,
\* and so does the stored row; a call that fails validation (or an earlier
\* check) does not call Create and leaves the store as it is.
C24_HashBeforePersist ==
    [][RegisterStep =>
         /\ res'.handed # NilUser =>
               /\ IsBcryptString(res'.handed.Password)
               /\ res'.handed.Password # res'.cmd.Password
               /\ BcryptMatches(res'.handed.Password, res'.cmd.Password)
         /\ res'.err = "" =>
               /\ res'.handed # NilUser
               /\ res'.handed.ID \notin DOMAIN store
               /\ store'[res'.handed.ID].Password = res'.handed.Password
         /\ res'.err \notin {"", "failed to create user"} =>
               res'.handed = NilUser /\ store' = store]_vars

\* C24 witness: a user was stored with the hash of the command's password
C24_Witness ==
    /\ res.op = "RegisterUser" /\ res.err = ""
    /\ res.handed.ID \in DOMAIN store
    /\ store[res.handed.ID].Password = BcryptGenerate(res.cmd.Password, RegisterSalt)
    /\ store[res.handed.ID].Password # res.cmd.Password

----------------------------------------------------------------------------
(* C27, C28: what a login gives away, and what a failing login writes *)

\* an Authenticate call with a wrong password for an email that is not
\* registered or belongs to an active account
WrongPasswordCall ==
    /\ res.op = "Authenticate"
    /\ res.email # <<>> /\ res.password = PwOther
    /\ res.loaded # NilUser => res.loaded.IsActive

\* C27: account-enumeration avoidance over a session.  Every call with a
\* wrong password gets the answer that a call for an unregistered email
\* gets, "invalid credentials", whether the email belongs to an active
\* registered account or to none.
C27_NoAccountEnumeration ==
    WrongPasswordCall =>
        res.err = Authenticate(AuthTokenService, [id \in {} |-> NilUser], res.at,
                               res.email, res.password, "sql", FALSE).err

\* an Authenticate call has just returned
AuthenticateStep == res'.op = "Authenticate" /\ now' = now

\* the row records a successful login made at time t
SuccessRow(row, t) ==
    row.FailedLoginAttempts = 0 /\ row.LockedUntil = NoTime /\ row.LastLoginAt = t

\* C28: a write that records a successful login (counter 0, lock cleared,
\* lastLoginAt set) happens only in an Authenticate call that returns the
\* user and a token; a call that returns an error has made no such write.
C28_ErrorLeavesNoSuccessWrite ==
    [][AuthenticateStep =>
         \A id \in DOMAIN store' :
             (store'[id] # store[id] /\ SuccessRow(store'[id], now)) =>
                 /\ res'.err = ""
                 /\ res'.user # NilUser /\ res'.user.ID = id
                 /\ res'.token # EmptyString]_vars

\* C28 witness: the password matched, the Update of the successful login
\* failed, the call returned an error and the row shows no login at that time
C28_Witness ==
    /\ res.op = "Authenticate" /\ res.err = "failed to update user login information"
    /\ res.compared /\ res.updateErr # ""
    /\ SuccessRow(res.written, res.at)
    /\ ~SuccessRow(store[res.written.ID], res.at)

----------------------------------------------------------------------------
(* Logins in flight while the account is changed in the store *)

\* the account is deactivated, whatever the logins do: FindByID, Deactivate,
\* Update
LoginDeactivate ==
    /\ store["u1"].IsActive
    /\ store' = RepoUpdate(store, Deactivate(RepoFindByID(store, "u1").user, now), now, FALSE).store
    /\ res' = [op |-> "Deactivate", id |-> "u1"]
    /\ UNCHANGED <<now, ticks, userVars, tokenVars, lockedAt, procs, hist>>

\* the password is changed, whatever the logins do: FindByID, ChangePassword,
\* HashPassword, Update
LoginChangePassword ==
    /\ store["u1"].Password = RegisteredStore["u1"].Password
    /\ LET changed == ChangePassword(RepoFindByID(store, "u1").user, PwOther, now).user
       IN  store' = RepoUpdate(store, HashPassword(changed, RegisterSalt), now, FALSE).store
    /\ res' = [op |-> "ChangePassword", id |-> "u1"]
    /\ UNCHANGED <<now, ticks, userVars, tokenVars, lockedAt, procs, hist>>

NextAccount ==
    \/ \E p \in Procs : LoginFind(p)
    \/ \E p \in Procs : LoginFinish(p)
    \/ LoginDeactivate
    \/ LoginChangePassword

SpecAccount == InitLogin /\ [][NextAccount]_vars

\* an Authenticate call has run from the return of FindByEmail to its end
FinishStep == \E p \in Procs : procs[p].pc = "found" /\ procs'[p].pc = "idle"

\* C29: the write of Authenticate changes only login-tracking fields: the
\* stored isActive flag, email and password are after the call's Update what
\* they were before it, also when they were changed in the store after the
\* call read the user.
C29_WriteKeepsAccountFields ==
    [][FinishStep =>
         /\ store'["u1"].IsActive = store["u1"].IsActive
         /\ store'["u1"].Email = store["u1"].Email
         /\ store'["u1"].Password = store["u1"].Password]_vars

====
